---- MODULE Spec2Model ----
(***************************************************************************)
(* Model of the toy compiler front end of Modular-C-Demos:                 *)
(*   chapter 19  src/src/19_parsing_ast/parsing_ast.c                      *)
(*               expression lexer, recursive-descent parser, AST, evaluator*)
(*   chapter 18  src/src/18_lexical_analysis/lexical_analysis.c            *)
(*               the mini tokenizer                                        *)
(*   chapter 20  src/src/20_semantic_analysis/semantic_analysis.c          *)
(*               symbol table, scopes and type checks                      *)
(*   chapter 14  src/src/14_concurrency/concurrency.c                      *)
(*               the producer and the consumer of the bounded buffer       *)
(* Characters are one-character strings, a C string is a sequence of them  *)
(* and reading at or past its length gives the terminating NUL.            *)
(***************************************************************************)
EXTENDS Integers, Sequences, FiniteSets, TLC

VARIABLES
    expression,     \* demo_parse_and_eval: the string handed to the parser
    p,              \* Parser: [lexer |-> [src, pos], current |-> Tok]
    heap,           \* the malloc'ed ASTNodes, node k is heap[k]; 0 is NULL
    stack,          \* call stack of parse_expr / parse_term / parse_factor
    ret,            \* value returned by the call that returned last
    parse_errors,   \* number of "[PARSE ERROR]" lines printed
    ast,            \* demo_parse_and_eval: ASTNode *ast
    result,         \* demo_parse_and_eval: int result
    runtime_errors, \* number of "[RUNTIME ERROR]" lines printed
    freed,          \* the nodes handed to free(), in order
    ppc,            \* position in demo_parse_and_eval
    source,         \* tokenize_all: const char *source
    max_tokens,     \* tokenize_all: int max_tokens
    lex,            \* tokenize_all: Lexer lex = [src, pos, line, col]
    tokens,         \* tokenize_all: the tokens stored in tokens[0 .. count-1]
    count,          \* tokenize_all: int count
    tpc,            \* position in tokenize_all
    st,             \* SymbolTable st
    sym_call,       \* the function of chapter 20 called last and the diagnostic it printed
    lhs_type,       \* check_assignment_compat: VarType lhs_type
    rhs_type,       \* check_assignment_compat: VarType rhs_type
    script,         \* the calls of chapter 20 a demo makes on its table, in order
    script_pc,      \* how many of them it has made
    buffer,         \* int buffer[BUFFER_SIZE], as a function on 0 .. BUFFER_SIZE-1
    buf_count,      \* int buf_count
    buf_mutex,      \* the thread that holds buf_mutex, or "free"
    prod,           \* producer: [pc, i]
    cons            \* consumer: [pc, i, val]

parserVars == <<expression, p, heap, stack, ret, parse_errors, ast, result,
                runtime_errors, freed, ppc>>

lexerVars == <<source, max_tokens, lex, tokens, count, tpc>>

symVars == <<st, sym_call, lhs_type, rhs_type>>

scriptVars == <<script, script_pc>>

concVars == <<buffer, buf_count, buf_mutex, prod, cons>>

\* the variables of the other chapters, which the chapter-19 steps leave alone
otherVars == <<lexerVars, symVars, scriptVars, concVars>>

vars == <<parserVars, lexerVars, symVars, scriptVars, concVars>>

-----------------------------------------------------------------------------
(* Characters and C strings                                                *)

NUL == "\\0"
NULL == 0

Digits == {"0", "1", "2", "3", "4", "5", "6", "7", "8", "9"}

DigitVal(c) ==
    CASE c = "0" -> 0 [] c = "1" -> 1 [] c = "2" -> 2 [] c = "3" -> 3
      [] c = "4" -> 4 [] c = "5" -> 5 [] c = "6" -> 6 [] c = "7" -> 7
      [] c = "8" -> 8 [] c = "9" -> 9

\* s[i] of a C string, i counted from 0
Ch(s, i) == IF i >= 0 /\ i < Len(s) THEN s[i + 1] ELSE NUL

SetMin(S) == CHOOSE x \in S : \A y \in S : x <= y
SetMax(S) == CHOOSE x \in S : \A y \in S : y <= x

-----------------------------------------------------------------------------
(* Chapter 19, section 2: the expression lexer                             *)

MakeTok(type, value, ch) == [type |-> type, value |-> value, ch |-> ch]

RECURSIVE SkipBlanks(_, _)
SkipBlanks(s, i) ==
    IF Ch(s, i) = " " \/ Ch(s, i) = "\t" THEN SkipBlanks(s, i + 1) ELSE i

\* the digit loop: returns the value accumulated and the position reached
\* (value * 10 + digit overflows int, undefined in C, only from ten digits on:
\* the inputs below stay under that)
RECURSIVE ScanInt(_, _, _)
ScanInt(s, i, value) ==
    IF Ch(s, i) \in Digits
        THEN ScanInt(s, i + 1, value * 10 + DigitVal(Ch(s, i)))
        ELSE [value |-> value, pos |-> i]

OperatorTokType(c) ==
    CASE c = "+" -> "T_PLUS"
      [] c = "-" -> "T_MINUS"
      [] c = "*" -> "T_STAR"
      [] c = "/" -> "T_SLASH"
      [] c = "(" -> "T_LPAREN"
      [] c = ")" -> "T_RPAREN"
      [] OTHER   -> "T_ERROR"

\* expr_next_token on the lexer state lx: the token and the lexer after it
expr_next_token(lx) ==
    LET i == SkipBlanks(lx.src, lx.pos)
        c == Ch(lx.src, i)
    IN  IF c = NUL
            THEN [tok |-> MakeTok("T_EOF", 0, NUL),
                  lexer |-> [src |-> lx.src, pos |-> i]]
        ELSE IF c \in Digits
            THEN LET n == ScanInt(lx.src, i, 0)
                 IN  [tok |-> MakeTok("T_INT", n.value, NUL),
                      lexer |-> [src |-> lx.src, pos |-> n.pos]]
        ELSE [tok |-> MakeTok(OperatorTokType(c), 0, c),
              lexer |-> [src |-> lx.src, pos |-> i + 1]]

-----------------------------------------------------------------------------
(* Chapter 19, section 3: AST nodes                                        *)

make_int_node(value) ==
    [type |-> "NODE_INT", int_value |-> value, op |-> NUL,
     left |-> NULL, right |-> NULL]

make_binop_node_swapped(op, left, right) ==
    [type |-> "NODE_BINOP", int_value |-> 0, op |-> op,
     left |-> right, right |-> left]

make_binop_node_shared(op, left, right) ==
    [type |-> "NODE_BINOP", int_value |-> 0, op |-> op,
     left |-> left, right |-> left]

make_binop_node(op, left, right) ==
    [type |-> "NODE_BINOP", int_value |-> 0, op |-> op,
     left |-> left, right |-> right]

make_unary_neg_node_twice(child) ==
    [type |-> "NODE_UNARY_NEG", int_value |-> 0, op |-> "-",
     left |-> child, right |-> child]

make_unary_neg_node(child) ==
    [type |-> "NODE_UNARY_NEG", int_value |-> 0, op |-> "-",
     left |-> child, right |-> NULL]

-----------------------------------------------------------------------------
(* Chapter 19, section 4: the recursive-descent parser                     *)

parser_init(s) ==
    LET r == expr_next_token([src |-> s, pos |-> 0])
    IN  [lexer |-> r.lexer, current |-> r.tok]

parser_advance_stuck(q) == q

parser_advance(q) ==
    LET r == expr_next_token(q.lexer)
    IN  [lexer |-> r.lexer, current |-> r.tok]

parser_expect_consuming(q, type) ==
    [parser |-> parser_advance(q), errors |-> IF q.current.type = type THEN 0 ELSE 1]

\* parser_expect: the parser after the call and the number of errors printed
parser_expect(q, type) ==
    IF q.current.type = type
        THEN [parser |-> parser_advance(q), errors |-> 0]
        ELSE [parser |-> q, errors |-> 1]

factor_recover_consuming(q) == parser_advance(q)

\* the last branch of parse_factor: the parser it leaves behind
factor_recover(q) == q

Frame(fn, at, left, op) == [fn |-> fn, at |-> at, left |-> left, op |-> op]

Top == stack[Len(stack)]
Caller == SubSeq(stack, 1, Len(stack) - 1)
Running(fn, at) ==
    /\ ppc = "parsing"
    /\ stack # <<>>
    /\ Top.fn = fn
    /\ Top.at = at

\* replace the running frame, then call fn
CallFrom(frame, fn) == Append(Append(Caller, frame), Frame(fn, "entry", NULL, NUL))

\* return a freshly allocated node to the caller
ReturnNew(node) ==
    /\ heap' = Append(heap, node)
    /\ ret' = Len(heap) + 1
    /\ stack' = Caller

\* return an existing node to the caller
ReturnOld(n) ==
    /\ heap' = heap
    /\ ret' = n
    /\ stack' = Caller

\* demo_parse_and_eval: parser_init, then the call of parse_expr
DemoStart ==
    /\ ppc = "start"
    /\ p' = parser_init(expression)
    /\ stack' = <<Frame("parse_expr", "entry", NULL, NUL)>>
    /\ ppc' = "parsing"
    /\ UNCHANGED <<expression, heap, ret, parse_errors, ast, result, runtime_errors, freed>>
    /\ UNCHANGED otherVars

\* parse_factor, '-' branch: consume it and recurse
FactorMinus ==
    /\ Running("parse_factor", "entry")
    /\ p.current.type = "T_MINUS"
    /\ p' = parser_advance(p)
    /\ stack' = CallFrom(Frame("parse_factor", "neg", NULL, NUL), "parse_factor")
    /\ UNCHANGED <<expression, heap, ret, parse_errors, ast, result, runtime_errors, ppc, freed>>
    /\ UNCHANGED otherVars

FactorMinusReturn ==
    /\ Running("parse_factor", "neg")
    /\ ReturnNew(make_unary_neg_node(ret))
    /\ UNCHANGED <<expression, p, parse_errors, ast, result, runtime_errors, ppc, freed>>
    /\ UNCHANGED otherVars

\* parse_factor, '(' branch: consume it and parse an expr
FactorParen ==
    /\ Running("parse_factor", "entry")
    /\ p.current.type = "T_LPAREN"
    /\ p' = parser_advance(p)
    /\ stack' = CallFrom(Frame("parse_factor", "paren", NULL, NUL), "parse_expr")
    /\ UNCHANGED <<expression, heap, ret, parse_errors, ast, result, runtime_errors, ppc, freed>>
    /\ UNCHANGED otherVars

FactorParenReturn ==
    /\ Running("parse_factor", "paren")
    /\ LET e == parser_expect(p, "T_RPAREN")
       IN  /\ p' = e.parser
           /\ parse_errors' = parse_errors + e.errors
    /\ ReturnOld(ret)
    /\ UNCHANGED <<expression, ast, result, runtime_errors, ppc, freed>>
    /\ UNCHANGED otherVars

\* parse_factor, integer literal
FactorInt ==
    /\ Running("parse_factor", "entry")
    /\ p.current.type = "T_INT"
    /\ p' = parser_advance(p)
    /\ ReturnNew(make_int_node(p.current.value))
    /\ UNCHANGED <<expression, parse_errors, ast, result, runtime_errors, ppc, freed>>
    /\ UNCHANGED otherVars

\* parse_factor, anything else: report and return a zero literal
FactorUnexpected ==
    /\ Running("parse_factor", "entry")
    /\ p.current.type \notin {"T_MINUS", "T_LPAREN", "T_INT"}
    /\ parse_errors' = parse_errors + 1
    /\ p' = factor_recover(p)
    /\ ReturnNew(make_int_node(0))
    /\ UNCHANGED <<expression, ast, result, runtime_errors, ppc, freed>>
    /\ UNCHANGED otherVars

\* parse_term: ASTNode *left = parse_factor(p)
TermEntry ==
    /\ Running("parse_term", "entry")
    /\ stack' = CallFrom(Frame("parse_term", "first", NULL, NUL), "parse_factor")
    /\ UNCHANGED <<expression, p, heap, ret, parse_errors, ast, result, runtime_errors, ppc, freed>>
    /\ UNCHANGED otherVars

TermFirstReturn ==
    /\ Running("parse_term", "first")
    /\ stack' = Append(Caller, Frame("parse_term", "loop", ret, NUL))
    /\ UNCHANGED <<expression, p, heap, ret, parse_errors, ast, result, runtime_errors, ppc, freed>>
    /\ UNCHANGED otherVars

\* char op = (p->current.type == T_STAR) ? '*' : '/'
term_op(type) == IF type = "T_STAR" THEN "*" ELSE "/"

\* parse_term, the while loop taken: consume the operator, parse the right factor
TermLoopOperator ==
    /\ Running("parse_term", "loop")
    /\ p.current.type = "T_STAR" \/ p.current.type = "T_SLASH"
    /\ p' = parser_advance(p)
    /\ stack' = CallFrom(Frame("parse_term", "right", Top.left, term_op(p.current.type)),
                         "parse_factor")
    /\ UNCHANGED <<expression, heap, ret, parse_errors, ast, result, runtime_errors, ppc, freed>>
    /\ UNCHANGED otherVars

\* left = make_binop_node(op, left, right)
TermRightReturn ==
    /\ Running("parse_term", "right")
    /\ heap' = Append(heap, make_binop_node(Top.op, Top.left, ret))
    /\ stack' = Append(Caller, Frame("parse_term", "loop", Len(heap) + 1, NUL))
    /\ UNCHANGED <<expression, p, ret, parse_errors, ast, result, runtime_errors, ppc, freed>>
    /\ UNCHANGED otherVars

\* parse_term, the while loop left: return left
TermLoopExit ==
    /\ Running("parse_term", "loop")
    /\ ~(p.current.type = "T_STAR" \/ p.current.type = "T_SLASH")
    /\ ReturnOld(Top.left)
    /\ UNCHANGED <<expression, p, parse_errors, ast, result, runtime_errors, ppc, freed>>
    /\ UNCHANGED otherVars

\* parse_expr: ASTNode *left = parse_term(p)
ExprEntry ==
    /\ Running("parse_expr", "entry")
    /\ stack' = CallFrom(Frame("parse_expr", "first", NULL, NUL), "parse_term")
    /\ UNCHANGED <<expression, p, heap, ret, parse_errors, ast, result, runtime_errors, ppc, freed>>
    /\ UNCHANGED otherVars

ExprFirstReturn ==
    /\ Running("parse_expr", "first")
    /\ stack' = Append(Caller, Frame("parse_expr", "loop", ret, NUL))
    /\ UNCHANGED <<expression, p, heap, ret, parse_errors, ast, result, runtime_errors, ppc, freed>>
    /\ UNCHANGED otherVars

expr_op_swapped(type) == IF type = "T_PLUS" THEN "-" ELSE "+"

\* char op = (p->current.type == T_PLUS) ? '+' : '-'
expr_op(type) == IF type = "T_PLUS" THEN "+" ELSE "-"

\* parse_expr, the while loop taken: consume the operator, parse the right term
ExprLoopOperator ==
    /\ Running("parse_expr", "loop")
    /\ p.current.type = "T_PLUS" \/ p.current.type = "T_MINUS"
    /\ p' = parser_advance(p)
    /\ stack' = CallFrom(Frame("parse_expr", "right", Top.left, expr_op(p.current.type)),
                         "parse_term")
    /\ UNCHANGED <<expression, heap, ret, parse_errors, ast, result, runtime_errors, ppc, freed>>
    /\ UNCHANGED otherVars

\* left = make_binop_node(op, left, right)
ExprRightReturn ==
    /\ Running("parse_expr", "right")
    /\ heap' = Append(heap, make_binop_node(Top.op, Top.left, ret))
    /\ stack' = Append(Caller, Frame("parse_expr", "loop", Len(heap) + 1, NUL))
    /\ UNCHANGED <<expression, p, ret, parse_errors, ast, result, runtime_errors, ppc, freed>>
    /\ UNCHANGED otherVars

\* parse_expr, the while loop left: return left
ExprLoopExit ==
    /\ Running("parse_expr", "loop")
    /\ ~(p.current.type = "T_PLUS" \/ p.current.type = "T_MINUS")
    /\ ReturnOld(Top.left)
    /\ UNCHANGED <<expression, p, parse_errors, ast, result, runtime_errors, ppc, freed>>
    /\ UNCHANGED otherVars

\* demo_parse_and_eval: ast = parse_expr(&p) has returned
DemoParsed ==
    /\ ppc = "parsing"
    /\ stack = <<>>
    /\ ast' = ret
    /\ ppc' = "parsed"
    /\ UNCHANGED <<expression, p, heap, stack, ret, parse_errors, result, runtime_errors, freed>>
    /\ UNCHANGED otherVars

-----------------------------------------------------------------------------
(* Chapter 19, section 6: the evaluator                                    *)

Abs(x) == IF x < 0 THEN -x ELSE x

\* C's integer division truncates toward zero
CDiv(a, b) ==
    IF (a < 0) = (b < 0) THEN Abs(a) \div Abs(b) ELSE -(Abs(a) \div Abs(b))

eval_div_keeps_left(left, right) ==
    IF right = 0 THEN [value |-> left, errors |-> 1]
                 ELSE [value |-> CDiv(left, right), errors |-> 0]

\* BinaryOp '/' : the value and the number of runtime errors printed
eval_div(left, right) ==
    IF right = 0 THEN [value |-> 0, errors |-> 1]
                 ELSE [value |-> CDiv(left, right), errors |-> 0]

\* eval_ast on node n of heap h: the value and the runtime errors printed
RECURSIVE eval_ast(_, _)
eval_ast(h, n) ==
    IF n = NULL THEN [value |-> 0, errors |-> 0]
    ELSE IF h[n].type = "NODE_INT" THEN [value |-> h[n].int_value, errors |-> 0]
    ELSE IF h[n].type = "NODE_BINOP" THEN
        LET left  == eval_ast(h, h[n].left)
            right == eval_ast(h, h[n].right)
            below == left.errors + right.errors
        IN  CASE h[n].op = "+" -> [value |-> left.value + right.value, errors |-> below]
              [] h[n].op = "-" -> [value |-> left.value - right.value, errors |-> below]
              [] h[n].op = "*" -> [value |-> left.value * right.value, errors |-> below]
              [] h[n].op = "/" ->
                    LET d == eval_div(left.value, right.value)
                    IN  [value |-> d.value, errors |-> below + d.errors]
              [] OTHER -> [value |-> 0, errors |-> below]
    ELSE LET child == eval_ast(h, h[n].left)
         IN  [value |-> -child.value, errors |-> child.errors]

\* demo_parse_and_eval: int result = eval_ast(ast)
DemoEval ==
    /\ ppc = "parsed"
    /\ LET e == eval_ast(heap, ast)
       IN  /\ result' = e.value
           /\ runtime_errors' = e.errors
    /\ ppc' = "evaluated"
    /\ UNCHANGED <<expression, p, heap, stack, ret, parse_errors, ast, freed>>
    /\ UNCHANGED otherVars

\* free_ast on node n of heap h: the nodes passed to free(), in order
RECURSIVE free_ast(_, _)
free_ast(h, n) ==
    IF n = NULL THEN <<>>
    ELSE free_ast(h, h[n].left) \o free_ast(h, h[n].right) \o <<n>>

\* demo_parse_and_eval: free_ast(ast)
DemoFree ==
    /\ ppc = "evaluated"
    /\ freed' = free_ast(heap, ast)
    /\ ppc' = "freed"
    /\ UNCHANGED <<expression, p, heap, stack, ret, parse_errors, ast, result, runtime_errors>>
    /\ UNCHANGED otherVars

-----------------------------------------------------------------------------
(* Chapter 18, sections 2 and 3: the mini tokenizer                        *)

MAX_TOKENS == 256

\* lexer_next_token copies at most this many characters into Token.text
TEXT_MAX == 62

Lower == {"a", "b", "c", "d", "e", "f", "g", "h", "i", "j", "k", "l", "m",
          "n", "o", "p", "q", "r", "s", "t", "u", "v", "w", "x", "y", "z"}
Upper == {"A", "B", "C", "D", "E", "F", "G", "H", "I", "J", "K", "L", "M",
          "N", "O", "P", "Q", "R", "S", "T", "U", "V", "W", "X", "Y", "Z"}

isdigit(c) == c \in Digits
isalpha(c) == c \in Lower \cup Upper
isalnum(c) == isalpha(c) \/ isdigit(c)

MakeToken(type, text, line, col) ==
    [type |-> type, text |-> text, line |-> line, col |-> col]

lexer_init(src) == [src |-> src, pos |-> 0, line |-> 1, col |-> 1]

lexer_peek(lx) == Ch(lx.src, lx.pos)

lexer_advance(lx) ==
    IF Ch(lx.src, lx.pos) = "\n"
        THEN [src |-> lx.src, pos |-> lx.pos + 1, line |-> lx.line + 1, col |-> 1]
        ELSE [src |-> lx.src, pos |-> lx.pos + 1, line |-> lx.line, col |-> lx.col + 1]

lexer_at_end(lx) == Ch(lx.src, lx.pos) = NUL

\* the inner loop of a line comment: up to the newline or the end
RECURSIVE skip_line_comment(_)
skip_line_comment(lx) ==
    IF ~lexer_at_end(lx) /\ lexer_peek(lx) # "\n"
        THEN skip_line_comment(lexer_advance(lx))
        ELSE lx

RECURSIVE skip_block_comment_half(_)
skip_block_comment_half(lx) ==
    IF lexer_at_end(lx) THEN lx
    ELSE IF lexer_peek(lx) = "*" /\ Ch(lx.src, lx.pos + 1) = "/"
        THEN lexer_advance(lx)
        ELSE skip_block_comment_half(lexer_advance(lx))

\* the inner loop of a block comment: through the closing star-slash, or to the end
RECURSIVE skip_block_comment(_)
skip_block_comment(lx) ==
    IF lexer_at_end(lx) THEN lx
    ELSE IF lexer_peek(lx) = "*" /\ Ch(lx.src, lx.pos + 1) = "/"
        THEN lexer_advance(lexer_advance(lx))
        ELSE skip_block_comment(lexer_advance(lx))

RECURSIVE lexer_skip_whitespace_comments(_)
lexer_skip_whitespace_comments(lx) ==
    IF lexer_at_end(lx) THEN lx
    ELSE LET c == lexer_peek(lx)
         IN  IF c = " " \/ c = "\t" \/ c = "\n" \/ c = "\r"
                 THEN lexer_skip_whitespace_comments(lexer_advance(lx))
             ELSE IF c = "/" /\ Ch(lx.src, lx.pos + 1) = "/"
                 THEN lexer_skip_whitespace_comments(
                          skip_line_comment(lexer_advance(lexer_advance(lx))))
             ELSE IF c = "/" /\ Ch(lx.src, lx.pos + 1) = "*"
                 THEN lexer_skip_whitespace_comments(
                          skip_block_comment(lexer_advance(lexer_advance(lx))))
             ELSE lx

single_char_type_no_assign(c) ==
    CASE c = "+" -> "TOK_PLUS"
      [] c = "-" -> "TOK_MINUS"
      [] c = "*" -> "TOK_STAR"
      [] c = ";" -> "TOK_SEMICOLON"
      [] c = "(" -> "TOK_LPAREN"
      [] c = ")" -> "TOK_RPAREN"
      [] c = "{" -> "TOK_LBRACE"
      [] c = "}" -> "TOK_RBRACE"
      [] OTHER   -> "TOK_ERROR"

\* the switch of lexer_next_token
single_char_type(c) ==
    CASE c = "+" -> "TOK_PLUS"
      [] c = "-" -> "TOK_MINUS"
      [] c = "*" -> "TOK_STAR"
      [] c = "=" -> "TOK_ASSIGN"
      [] c = ";" -> "TOK_SEMICOLON"
      [] c = "(" -> "TOK_LPAREN"
      [] c = ")" -> "TOK_RPAREN"
      [] c = "{" -> "TOK_LBRACE"
      [] c = "}" -> "TOK_RBRACE"
      [] OTHER   -> "TOK_ERROR"

\* lexer_advance called n times in a row: each newline passed adds a line and
\* puts the column back to 1, every other character adds a column
advance_times(lx, n) ==
    LET newlines == {j \in lx.pos..(lx.pos + n - 1) : Ch(lx.src, j) = "\n"}
    IN  [src  |-> lx.src,
         pos  |-> lx.pos + n,
         line |-> lx.line + Cardinality(newlines),
         col  |-> IF newlines = {} THEN lx.col + n
                  ELSE lx.pos + n - SetMax(newlines)]

\* the number of iterations of a loop that advances while the character under
\* the cursor is in S (the terminating NUL is in no S)
iterations(lx, S) ==
    SetMin({j \in lx.pos..Len(lx.src) : Ch(lx.src, j) \notin S}) - lx.pos

\* a scanning loop as a whole: each iteration copies the character while fewer
\* than TEXT_MAX are in the text, and advances
scan_loop_stuck(lx, text, S) == [text |-> text \o <<lexer_peek(lx)>>, lex |-> lx]

scan_loop(lx, text, S) ==
    LET n    == iterations(lx, S)
        room == TEXT_MAX - Len(text)
        m    == IF n < room THEN n ELSE room
    IN  [text |-> text \o SubSeq(lx.src, lx.pos + 1, lx.pos + m),
         lex |-> advance_times(lx, n)]

\* the digit loop: the text copied (at most TEXT_MAX characters) and the lexer
scan_digits(lx, text) == scan_loop(lx, text, {c \in Digits : isdigit(c)})

\* the identifier loop
scan_word(lx, text) ==
    scan_loop(lx, text, {c \in Lower \cup Upper \cup Digits \cup {"_"} :
                            isalnum(c) \/ c = "_"})

keyword_type_by_prefix(text) ==
    IF Len(text) >= 3 /\ SubSeq(text, 1, 3) = <<"i", "n", "t">> THEN "TOK_KW_INT"
    ELSE IF Len(text) >= 6 /\ SubSeq(text, 1, 6) = <<"r", "e", "t", "u", "r", "n">>
        THEN "TOK_KW_RETURN"
    ELSE "TOK_IDENTIFIER"

\* the two strcmp of the identifier branch
keyword_type(text) ==
    IF text = <<"i", "n", "t">> THEN "TOK_KW_INT"
    ELSE IF text = <<"r", "e", "t", "u", "r", "n">> THEN "TOK_KW_RETURN"
    ELSE "TOK_IDENTIFIER"

unrecognised_stuck(lx, line, col) ==
    [tok |-> MakeToken("TOK_ERROR", <<lexer_peek(lx)>>, line, col), lex |-> lx]

\* the last branch of lexer_next_token: an unrecognised character
unrecognised(lx, line, col) ==
    [tok |-> MakeToken("TOK_ERROR", <<lexer_peek(lx)>>, line, col),
     lex |-> lexer_advance(lx)]

\* lexer_next_token: the token returned and the lexer after the call
lexer_next_token(lx0) ==
    LET lx == lexer_skip_whitespace_comments(lx0)
        c  == lexer_peek(lx)
    IN  IF lexer_at_end(lx)
            THEN [tok |-> MakeToken("TOK_EOF", <<"<", "E", "O", "F", ">">>, lx.line, lx.col),
                  lex |-> lx]
        ELSE IF single_char_type(c) # "TOK_ERROR"
            THEN [tok |-> MakeToken(single_char_type(c), <<c>>, lx.line, lx.col),
                  lex |-> lexer_advance(lx)]
        ELSE IF isdigit(c)
            THEN LET r == scan_digits(lx, <<>>)
                 IN  [tok |-> MakeToken("TOK_INT_LITERAL", r.text, lx.line, lx.col),
                      lex |-> r.lex]
        ELSE IF isalpha(c) \/ c = "_"
            THEN LET r == scan_word(lx, <<>>)
                 IN  [tok |-> MakeToken(keyword_type(r.text), r.text, lx.line, lx.col),
                      lex |-> r.lex]
        ELSE unrecognised(lx, lx.line, lx.col)

\* tokenize_all: lexer_init and count = 0
TokenizeStart ==
    /\ tpc = "start"
    /\ lex' = lexer_init(source)
    /\ count' = 0
    /\ tpc' = "loop"
    /\ UNCHANGED <<source, max_tokens, tokens>>
    /\ UNCHANGED <<parserVars, symVars, scriptVars, concVars>>

\* tokenize_all: one iteration of the while loop
TokenizeStep ==
    /\ tpc = "loop"
    /\ count < max_tokens
    /\ LET r == lexer_next_token(lex)
       IN  /\ lex' = r.lex
           /\ tokens' = Append(tokens, r.tok)
           /\ count' = count + 1
           /\ tpc' = IF r.tok.type = "TOK_EOF" THEN "returned" ELSE "loop"
    /\ UNCHANGED <<source, max_tokens>>
    /\ UNCHANGED <<parserVars, symVars, scriptVars, concVars>>

\* tokenize_all: the loop ends with the array full
TokenizeFull ==
    /\ tpc = "loop"
    /\ ~(count < max_tokens)
    /\ tpc' = "returned"
    /\ UNCHANGED <<source, max_tokens, lex, tokens, count>>
    /\ UNCHANGED <<parserVars, symVars, scriptVars, concVars>>

-----------------------------------------------------------------------------
(* Chapter 20, section 1: the type system                                  *)

VarType == {"TYPE_INT", "TYPE_FLOAT", "TYPE_CHAR", "TYPE_INT_PTR", "TYPE_FLOAT_PTR",
            "TYPE_CHAR_PTR", "TYPE_VOID", "TYPE_UNKNOWN"}

is_pointer_type(t) == t = "TYPE_INT_PTR" \/ t = "TYPE_FLOAT_PTR" \/ t = "TYPE_CHAR_PTR"

is_numeric_type(t) == t = "TYPE_INT" \/ t = "TYPE_FLOAT" \/ t = "TYPE_CHAR"

-----------------------------------------------------------------------------
(* Chapter 20, section 2: the symbol table                                 *)
(* A bucket is its chain, head first.  A Symbol * is the symbol it points  *)
(* to, and the null pointer is NoSymbol.                                   *)

SYMTAB_SIZE == 64
MAX_SCOPES == 16
MAX_NAME_LEN == 32

NoSymbol == [name |-> <<>>, type |-> "NULL", scope_level |-> -1,
             is_initialised |-> 0, line_declared |-> 0]

LowerSeq == <<"a", "b", "c", "d", "e", "f", "g", "h", "i", "j", "k", "l", "m",
              "n", "o", "p", "q", "r", "s", "t", "u", "v", "w", "x", "y", "z">>

\* (unsigned char)c of the characters names are made of
ascii ==
    [c \in Lower \cup Digits \cup {"_"} |->
        IF c \in Digits THEN 48 + DigitVal(c)
        ELSE IF c = "_" THEN 95
        ELSE 96 + CHOOSE i \in 1..26 : LowerSeq[i] = c]

\* the loop of hash_name.  h is an unsigned int and wraps at 2^32; only
\* h % SYMTAB_SIZE is returned and SYMTAB_SIZE divides 2^32, so h is carried
\* modulo SYMTAB_SIZE.
RECURSIVE djb2(_, _, _)
djb2(name, i, h) ==
    IF i > Len(name) THEN h
    ELSE djb2(name, i + 1, ((h * 32 + h) + ascii[name[i]]) % SYMTAB_SIZE)

hash_name(name) == djb2(name, 1, 5381 % SYMTAB_SIZE) % SYMTAB_SIZE

\* strncpy(sym->name, name, MAX_NAME_LEN - 1) and the terminating NUL
copy_name(name) ==
    SubSeq(name, 1, IF Len(name) < MAX_NAME_LEN - 1 THEN Len(name) ELSE MAX_NAME_LEN - 1)

\* a name of MAX_NAME_LEN characters, one more than a Symbol stores, that
\* hash_name puts in the bucket of x
LongName == [k \in 1..MAX_NAME_LEN |->
                IF k = MAX_NAME_LEN THEN "x" ELSE IF k = MAX_NAME_LEN - 1 THEN "b" ELSE "a"]

\* x of demo_scoping, the long name and what is stored of it
Names == {<<"x">>, LongName, copy_name(LongName)}

\* the names of demo_full_scenario
ScenarioNames == {<<"c", "o", "u", "n", "t">>, <<"a", "v", "e", "r", "a", "g", "e">>,
                  <<"p", "t", "r">>, <<"x">>}

\* hash_name of each of these names, computed once
bucket_of == [name \in Names \cup ScenarioNames |-> hash_name(name)]

symtab_init ==
    [buckets       |-> [i \in 0..(SYMTAB_SIZE - 1) |-> <<>>],
     current_scope |-> 0,
     scope_stack   |-> [i \in 0..(MAX_SCOPES - 1) |-> 0],
     scope_top     |-> 0,
     total_symbols |-> 0,
     warnings      |-> 0,
     errors        |-> 0]

\* the while loop of symtab_lookup over the rest of a chain
RECURSIVE lookup_loop(_, _, _)
lookup_loop(chain, name, best) ==
    IF chain = <<>> THEN best
    ELSE LET sym == Head(chain)
         IN  lookup_loop(Tail(chain), name,
                 IF sym.name = name
                    /\ (best = NoSymbol \/ sym.scope_level > best.scope_level)
                     THEN sym ELSE best)

symtab_lookup(t, name) == lookup_loop(t.buckets[bucket_of[name]], name, NoSymbol)

RECURSIVE lookup_current_loop(_, _, _)
lookup_current_loop(chain, name, scope) ==
    IF chain = <<>> THEN NoSymbol
    ELSE IF Head(chain).name = name /\ Head(chain).scope_level = scope
        THEN Head(chain)
        ELSE lookup_current_loop(Tail(chain), name, scope)

symtab_lookup_current_scope(t, name) ==
    lookup_current_loop(t.buckets[bucket_of[name]], name, t.current_scope)

\* the shadowing check of symtab_insert: 1 when it warns
shadow_warning(t, name) ==
    LET outer == symtab_lookup(t, name)
    IN  IF outer # NoSymbol /\ outer.scope_level < t.current_scope THEN 1 ELSE 0

redeclared_and_emptied(t) ==
    [st |-> [symtab_init EXCEPT !.errors = t.errors + 1, !.warnings = t.warnings],
     ret |-> NoSymbol]

\* the redeclaration branch of symtab_insert
redeclared(t) == [st |-> [t EXCEPT !.errors = @ + 1], ret |-> NoSymbol]

\* symtab_insert: the table after the call and the pointer returned
symtab_insert(t, name, type, initialised, line) ==
    IF symtab_lookup_current_scope(t, name) # NoSymbol
        THEN redeclared(t)
        ELSE LET sym == [name |-> copy_name(name), type |-> type,
                         scope_level |-> t.current_scope,
                         is_initialised |-> initialised, line_declared |-> line]
                 idx == bucket_of[name]
             IN  [st  |-> [t EXCEPT !.warnings = @ + shadow_warning(t, name),
                                    !.buckets[idx] = <<sym>> \o @,
                                    !.total_symbols = @ + 1],
                  ret |-> sym]

symtab_push_scope(t) ==
    IF t.scope_top < MAX_SCOPES
        THEN [t EXCEPT !.scope_stack[t.scope_top] = t.current_scope,
                       !.scope_top = @ + 1,
                       !.current_scope = @ + 1]
        ELSE [t EXCEPT !.current_scope = @ + 1]

remove_scope_head_only(chain, scope) ==
    IF chain # <<>> /\ Head(chain).scope_level = scope THEN Tail(chain) ELSE chain

\* the inner while loop of symtab_pop_scope on one chain
remove_scope(chain, scope) == SelectSeq(chain, LAMBDA sym : sym.scope_level # scope)

RECURSIVE SumLen(_, _)
SumLen(b, i) == IF i < 0 THEN 0 ELSE Len(b[i]) + SumLen(b, i - 1)

\* the end of symtab_pop_scope: back to the level saved by the matching push
restore_scope(t) ==
    IF t.scope_top > 0
        THEN [t EXCEPT !.scope_top = @ - 1,
                       !.current_scope = t.scope_stack[t.scope_top - 1]]
        ELSE t

\* a symtab_pop_scope that does nothing without a matching push
symtab_pop_scope_matched_only(t) ==
    IF t.scope_top = 0 THEN t
    ELSE restore_scope(
             [t EXCEPT !.buckets = [i \in 0..(SYMTAB_SIZE - 1) |->
                                        remove_scope(t.buckets[i], t.current_scope)]])

symtab_pop_scope(t) ==
    LET b == [i \in 0..(SYMTAB_SIZE - 1) |-> remove_scope(t.buckets[i], t.current_scope)]
        removed == SumLen(t.buckets, SYMTAB_SIZE - 1) - SumLen(b, SYMTAB_SIZE - 1)
    IN  restore_scope([t EXCEPT !.buckets = b, !.total_symbols = @ - removed])

-----------------------------------------------------------------------------
(* Chapter 20, section 3: type checking                                    *)

compat_numeric_is_error(lhs, rhs) ==
    IF lhs = rhs THEN "ok"
    ELSE IF is_pointer_type(lhs) /\ is_pointer_type(rhs) THEN "error"
    ELSE IF \/ is_pointer_type(lhs) /\ is_numeric_type(rhs)
            \/ is_numeric_type(lhs) /\ is_pointer_type(rhs) THEN "error"
    ELSE IF lhs = "TYPE_INT" /\ rhs = "TYPE_FLOAT" THEN "warning"
    ELSE IF lhs = "TYPE_FLOAT" /\ rhs = "TYPE_INT" THEN "warning"
    ELSE IF \/ lhs = "TYPE_CHAR" /\ rhs = "TYPE_INT"
            \/ lhs = "TYPE_INT" /\ rhs = "TYPE_CHAR" THEN "warning"
    ELSE "error"

compat_void_is_ok(lhs, rhs) ==
    IF lhs = rhs THEN "ok"
    ELSE IF is_pointer_type(lhs) /\ is_pointer_type(rhs) THEN "error"
    ELSE IF \/ is_pointer_type(lhs) /\ is_numeric_type(rhs)
            \/ is_numeric_type(lhs) /\ is_pointer_type(rhs) THEN "error"
    ELSE IF lhs = "TYPE_INT" /\ rhs = "TYPE_FLOAT" THEN "warning"
    ELSE IF lhs = "TYPE_FLOAT" /\ rhs = "TYPE_INT" THEN "warning"
    ELSE IF \/ lhs = "TYPE_CHAR" /\ rhs = "TYPE_INT"
            \/ lhs = "TYPE_INT" /\ rhs = "TYPE_CHAR" THEN "warning"
    ELSE "ok"

\* the chain of tests of check_assignment_compat: what it prints
compat(lhs, rhs) ==
    IF lhs = rhs THEN "ok"
    ELSE IF is_pointer_type(lhs) /\ is_pointer_type(rhs) THEN "error"
    ELSE IF \/ is_pointer_type(lhs) /\ is_numeric_type(rhs)
            \/ is_numeric_type(lhs) /\ is_pointer_type(rhs) THEN "error"
    ELSE IF lhs = "TYPE_INT" /\ rhs = "TYPE_FLOAT" THEN "warning"
    ELSE IF lhs = "TYPE_FLOAT" /\ rhs = "TYPE_INT" THEN "warning"
    ELSE IF \/ lhs = "TYPE_CHAR" /\ rhs = "TYPE_INT"
            \/ lhs = "TYPE_INT" /\ rhs = "TYPE_CHAR" THEN "warning"
    ELSE IF is_numeric_type(lhs) /\ is_numeric_type(rhs) THEN "ok"
    ELSE "error"

check_assignment_compat(t, lhs, rhs) ==
    LET verdict == compat(lhs, rhs)
    IN  IF verdict = "error" THEN [t EXCEPT !.errors = @ + 1]
        ELSE IF verdict = "warning" THEN [t EXCEPT !.warnings = @ + 1]
        ELSE t

check_use_outermost(t, name) ==
    LET chain == t.buckets[bucket_of[name]]
        named == SelectSeq(chain, LAMBDA sym : sym.name = name)
    IN  IF named = <<>> THEN [t EXCEPT !.errors = @ + 1]
        ELSE IF named[Len(named)].is_initialised = 0 THEN [t EXCEPT !.warnings = @ + 1]
        ELSE t

check_use(t, name) ==
    LET sym == symtab_lookup(t, name)
    IN  IF sym = NoSymbol THEN [t EXCEPT !.errors = @ + 1]
        ELSE IF sym.is_initialised = 0 THEN [t EXCEPT !.warnings = @ + 1]
        ELSE t

\* the diagnostic line a call printed: every counter increment has its printf
Printed(before, after) ==
    IF after.errors > before.errors THEN "ERROR"
    ELSE IF after.warnings > before.warnings THEN "WARNING"
    ELSE "none"

\* a call, what it printed and the scope level it was made at
Call(fn, before, after) ==
    [fn |-> fn, printed |-> Printed(before, after), scope |-> before.current_scope]

\* the calls, as the demos make them
Insert(name, type, initialised, line) ==
    /\ st' = symtab_insert(st, name, type, initialised, line).st
    /\ sym_call' = Call("symtab_insert", st, st')
    /\ UNCHANGED <<lhs_type, rhs_type, parserVars, lexerVars, concVars>>

PushScope ==
    /\ st' = symtab_push_scope(st)
    /\ sym_call' = Call("symtab_push_scope", st, st')
    /\ UNCHANGED <<lhs_type, rhs_type, parserVars, lexerVars, concVars>>

PopScope ==
    /\ st' = symtab_pop_scope(st)
    /\ sym_call' = Call("symtab_pop_scope", st, st')
    /\ UNCHANGED <<lhs_type, rhs_type, parserVars, lexerVars, concVars>>

Use(name) ==
    /\ st' = check_use(st, name)
    /\ sym_call' = Call("check_use", st, st')
    /\ UNCHANGED <<lhs_type, rhs_type, parserVars, lexerVars, concVars>>

\* Symbol *avg = symtab_lookup(st, name); if (avg) avg->is_initialised = 1;
mark_initialised(t, name) ==
    LET avg == symtab_lookup(t, name)
        idx == bucket_of[name]
        k   == SetMin({j \in 1..Len(t.buckets[idx]) : t.buckets[idx][j] = avg})
    IN  IF avg = NoSymbol THEN t ELSE [t EXCEPT !.buckets[idx][k].is_initialised = 1]

\* one call of a demo on its table
CallOf(fn, name, type, initialised, line, lhs, rhs) ==
    [fn |-> fn, name |-> name, type |-> type, initialised |-> initialised,
     line |-> line, lhs |-> lhs, rhs |-> rhs]

InsertCall(name, type, initialised, line) ==
    CallOf("symtab_insert", name, type, initialised, line, "TYPE_UNKNOWN", "TYPE_UNKNOWN")

CompatCall(lhs, rhs, line) ==
    CallOf("check_assignment_compat", <<>>, "TYPE_UNKNOWN", 0, line, lhs, rhs)

NameCall(fn, name, line) ==
    CallOf(fn, name, "TYPE_UNKNOWN", 0, line, "TYPE_UNKNOWN", "TYPE_UNKNOWN")

\* the calls of demo_full_scenario after symtab_init, in order
FullScenario ==
    <<InsertCall(<<"c", "o", "u", "n", "t">>, "TYPE_INT", 1, 1),
      InsertCall(<<"a", "v", "e", "r", "a", "g", "e">>, "TYPE_FLOAT", 0, 2),
      InsertCall(<<"p", "t", "r">>, "TYPE_INT_PTR", 1, 3),
      CompatCall("TYPE_INT", "TYPE_INT", 4),
      NameCall("check_use", <<"c", "o", "u", "n", "t">>, 5),
      CompatCall("TYPE_FLOAT", "TYPE_INT", 5),
      NameCall("mark_initialised", <<"a", "v", "e", "r", "a", "g", "e">>, 5),
      CompatCall("TYPE_INT", "TYPE_FLOAT", 6),
      CompatCall("TYPE_INT_PTR", "TYPE_FLOAT_PTR", 7),
      NameCall("symtab_push_scope", <<>>, 8),
      InsertCall(<<"c", "o", "u", "n", "t">>, "TYPE_FLOAT", 1, 9),
      NameCall("check_use", <<"a", "v", "e", "r", "a", "g", "e">>, 10),
      NameCall("symtab_pop_scope", <<>>, 11),
      NameCall("check_use", <<"x">>, 12)>>

\* the demo makes its next call
ScriptCall ==
    /\ script_pc < Len(script)
    /\ script_pc' = script_pc + 1
    /\ script' = script
    /\ LET c == script[script_pc + 1]
       IN  \/ c.fn = "symtab_insert" /\ Insert(c.name, c.type, c.initialised, c.line)
           \/ c.fn = "symtab_push_scope" /\ PushScope
           \/ c.fn = "symtab_pop_scope" /\ PopScope
           \/ c.fn = "check_use" /\ Use(c.name)
           \/ /\ c.fn = "check_assignment_compat"
              /\ st' = check_assignment_compat(st, c.lhs, c.rhs)
              /\ sym_call' = Call(c.fn, st, st')
              /\ lhs_type' = c.lhs
              /\ rhs_type' = c.rhs
              /\ UNCHANGED <<parserVars, lexerVars, concVars>>
           \/ /\ c.fn = "mark_initialised"
              /\ st' = mark_initialised(st, c.name)
              /\ sym_call' = Call(c.fn, st, st')
              /\ UNCHANGED <<lhs_type, rhs_type, parserVars, lexerVars, concVars>>

-----------------------------------------------------------------------------
(* Inputs                                                                  *)

\* longest string of the exhaustive part of the inputs
MaxLen == 4

Alphabet == {"0", "3", "+", "-", "*", "/", "(", ")", "$"}

ShortStrings == UNION {[1..n -> Alphabet] : n \in 0..MaxLen}

\* demo_parsing: the eight expressions the program parses
DemoExpressions == {
    <<"3", " ", "+", " ", "4">>,
    <<"3", " ", "+", " ", "4", " ", "*", " ", "2">>,
    <<"(", "3", " ", "+", " ", "4", ")", " ", "*", " ", "2">>,
    <<"3", " ", "+", " ", "4", " ", "*", " ", "(", "2", " ", "-", " ", "1", ")">>,
    <<"1", "0", " ", "-", " ", "2", " ", "*", " ", "3", " ", "+", " ", "8", " ", "/", " ", "4">>,
    <<"(", "(", "2", " ", "+", " ", "3", ")", " ", "*", " ", "(", "4", " ", "-", " ", "1", ")", ")">>,
    <<"-", "5", " ", "+", " ", "3">>,
    <<"(", "1", "0", " ", "+", " ", "2", "0", ")", " ", "*", " ", "3", " ", "-", " ", "5", "0",
      " ", "/", " ", "(", "2", " ", "+", " ", "3", ")">> }

\* demo_precedence's example and the malformed and zero-divisor cases
ExtraExpressions == {
    <<"1", "0", " ", "-", " ", "3", " ", "-", " ", "2">>,
    <<"1", "0", " ", "/", " ", "0">>,
    <<"5", " ", "+", " ", "1", "0", " ", "/", " ", "0">>,
    <<"(", "3", " ", "+", " ", "4">>,
    <<"3", "\t", "*", "\t", "4">>,
    <<"3", " ", "4">>,
    <<"3", " ", ")">>,
    <<"3", " ", "$", " ", "4">> }

\* every  a op1 b op2 c  over a literal, a negated and a parenthesised factor
ChainFactors == {<<"2">>, <<"0">>, <<"-", "3">>, <<"(", "3", "-", "2", ")">>}

ChainExpressions ==
    {a \o <<o1>> \o b \o <<o2>> \o c :
        a \in ChainFactors, b \in ChainFactors, c \in ChainFactors,
        o1 \in {"+", "-", "*", "/"}, o2 \in {"+", "-", "*", "/"}}

Expressions == ShortStrings \cup DemoExpressions \cup ExtraExpressions \cup ChainExpressions

-----------------------------------------------------------------------------
(* Inputs of the tokenizer                                                 *)

\* longest string of the exhaustive part of the tokenizer's inputs
LexMaxLen == 3

LexAlphabet == {" ", "\t", "\n", "\r", "/", "*", "+", "-", "=", ";", "(", ")",
                "{", "}", "7", "x", "_", "$"}

LexShortStrings == UNION {[1..n -> LexAlphabet] : n \in 0..LexMaxLen}

\* longer inputs are put together from comment openers, closers and separators
MaxPieces == 4

Pieces == {<<"/", "/">>, <<"/", "*">>, <<"*", "/">>, <<"\n">>, <<" ">>,
           <<"x">>, <<"/">>, <<"*">>, <<"$">>}

RECURSIVE Concat(_)
Concat(ps) == IF ps = <<>> THEN <<>> ELSE Head(ps) \o Concat(Tail(ps))

PieceStrings == {Concat(ps) : ps \in UNION {[1..n -> Pieces] : n \in 0..MaxPieces}}

\* demo_tokenizer: the four sources the program tokenizes
Src1 == <<"i", "n", "t", " ", "x", " ", "=", " ", "4", "2", ";">>
Src2 == <<"i", "n", "t", " ", "a", "d", "d", "(", "i", "n", "t", " ", "a", ",", " ", "i",
        "n", "t", " ", "b", ")", " ", "{", "\n", " ", " ", " ", " ", "r", "e", "t", "u",
        "r", "n", " ", "a", " ", "+", " ", "b", ";", "\n", "}">>
Src3 == <<"/", "/", " ", "c", "o", "m", "p", "u", "t", "e", " ", "s", "u", "m", "\n", "i",
        "n", "t", " ", "s", "u", "m", " ", "=", " ", "a", " ", "+", " ", "b", ";", " ",
        "/", "*", " ", "r", "e", "s", "u", "l", "t", " ", "*", "/">>
Src4 == <<"r", "e", "s", "u", "l", "t", " ", "=", " ", "3", " ", "+", " ", "4", " ", "*",
        " ", "2", " ", "-", " ", "1", ";">>

\* words next to the keywords, and a digit run with a word right behind it
WordSources == {<<"i", "n", "t">>, <<"i", "n", "t", "1">>,
                <<"i", "n", "t", "e", "g", "e", "r">>, <<"I", "n", "t">>,
                <<"_", "i", "n", "t">>, <<"r", "e", "t", "u", "r", "n">>,
                <<"r", "e", "t", "u", "r", "n", "s">>, <<"4", "2", "a", "b">>,
                <<"7", "i", "n", "t">>, <<"i", "n", "t", "/", "*", "*", "/", "1">>}

\* runs one character longer than what lexer_next_token copies into Token.text
LongWord == [k \in 1..(TEXT_MAX + 1) |-> IF k = TEXT_MAX + 1 THEN "b" ELSE "a"]
LongNumber == [k \in 1..(TEXT_MAX + 1) |-> IF k = TEXT_MAX + 1 THEN "2" ELSE "1"]
LongSources == {LongWord, LongNumber, LongWord \o <<" ", "=", " ">> \o LongNumber \o <<";">>}

Sources == LexShortStrings \cup PieceStrings \cup {Src1, Src2, Src3, Src4}
               \cup WordSources \cup LongSources

\* a small array, next to the MAX_TOKENS the program passes
SmallMax == 2

-----------------------------------------------------------------------------
(* Inputs of the symbol table                                              *)

\* the most symbols the table holds, the deepest nesting and the most
\* diagnostics the calls are followed to
MaxSymbols == 3
MaxDepth == 2
MaxDiagnostics == 2

\* the declarations symtab_insert is called with: name, type, initialised, line
Declarations ==
    {<<<<"x">>, "TYPE_INT", 1, 1>>, <<<<"x">>, "TYPE_FLOAT", 0, 4>>,
     <<<<"x">>, "TYPE_CHAR", 1, 7>>, <<LongName, "TYPE_INT", 1, 2>>,
     <<copy_name(LongName), "TYPE_INT", 0, 3>>}

\* fewer than MaxDiagnostics errors and warnings are counted in table t
Quiet(t) == t.errors + t.warnings < MaxDiagnostics

SymtabInsert ==
    /\ st.total_symbols < MaxSymbols
    /\ Quiet(st)
    /\ \E d \in Declarations : Insert(d[1], d[2], d[3], d[4])
    /\ UNCHANGED scriptVars

SymtabPushScope == st.current_scope < MaxDepth /\ PushScope /\ UNCHANGED scriptVars

\* nesting is followed to two levels past the scope stack
MaxNesting == MAX_SCOPES + 2

\* the most symbols a deeply nested table holds
MaxDeepSymbols == 2

DeepInsert ==
    /\ st.total_symbols < MaxDeepSymbols
    /\ Quiet(st)
    /\ Insert(<<"x">>, "TYPE_INT", 1, 1)
    /\ UNCHANGED scriptVars

DeepPushScope == st.current_scope < MaxNesting /\ PushScope /\ UNCHANGED scriptVars

SymtabPopScope == PopScope /\ UNCHANGED scriptVars

CheckUse == Quiet(st) /\ UNCHANGED scriptVars /\ \E name \in Names : Use(name)

\* check_assignment_compat called on the pair of types
CheckAssignmentCompat ==
    /\ Quiet(st)
    /\ st' = check_assignment_compat(st, lhs_type, rhs_type)
    /\ sym_call' = Call("check_assignment_compat", st, st')
    /\ UNCHANGED <<lhs_type, rhs_type, scriptVars, parserVars, lexerVars, concVars>>

\* the longest demo made up of the calls of demo_full_scenario
MaxScript == 3

ScenarioCalls == {FullScenario[k] : k \in 1..Len(FullScenario)}

\* demo_full_scenario itself and every short demo made of its calls
Scripts == {FullScenario} \cup UNION {[1..n -> ScenarioCalls] : n \in 0..MaxScript}

-----------------------------------------------------------------------------
(* Chapter 14, sections 4 and 5: the producer and the consumer             *)
(* A thread is at "lock", "while", "wait" (blocked inside pthread_cond_wait,*)
(* buf_mutex released), "woken" (inside pthread_cond_wait, about to take   *)
(* buf_mutex again), "put" or "get", "signal", "unlock", and "done".       *)

BUFFER_SIZE == 5

\* both for loops: i < 8
Items == 8

\* pthread_cond_wait in the body of an if: when it returns, the buffer is
\* accessed without another test
wait_returns_to_access(access) == access

\* pthread_cond_wait stands in the body of a while: when it returns, the
\* condition of the while is tested again
wait_returns_to(access) == "while"

\* demo_producer_consumer: buf_count = 0 and the two pthread_create
DemoProducerConsumer ==
    /\ prod.pc = "idle"
    /\ cons.pc = "idle"
    /\ buf_count' = 0
    /\ prod' = [pc |-> "lock", i |-> 0]
    /\ cons' = [pc |-> "lock", i |-> 0, val |-> 0]
    /\ UNCHANGED <<buffer, buf_mutex, parserVars, lexerVars, symVars, scriptVars>>

\* pthread_mutex_lock(&buf_mutex)
ProducerLock ==
    /\ prod.pc = "lock"
    /\ buf_mutex = "free"
    /\ buf_mutex' = "producer"
    /\ prod' = [prod EXCEPT !.pc = "while"]
    /\ UNCHANGED <<buffer, buf_count, cons, parserVars, lexerVars, symVars, scriptVars>>

\* while (buf_count == BUFFER_SIZE) pthread_cond_wait(&not_full, &buf_mutex):
\* the test, and the entry into the wait, which releases buf_mutex
ProducerWhile ==
    /\ prod.pc = "while"
    /\ IF buf_count = BUFFER_SIZE
          THEN prod' = [prod EXCEPT !.pc = "wait"] /\ buf_mutex' = "free"
          ELSE prod' = [prod EXCEPT !.pc = "put"] /\ buf_mutex' = buf_mutex
    /\ UNCHANGED <<buffer, buf_count, cons, parserVars, lexerVars, symVars, scriptVars>>

\* pthread_cond_wait takes buf_mutex again and returns
ProducerReacquire ==
    /\ prod.pc = "woken"
    /\ buf_mutex = "free"
    /\ buf_mutex' = "producer"
    /\ prod' = [prod EXCEPT !.pc = wait_returns_to("put")]
    /\ UNCHANGED <<buffer, buf_count, cons, parserVars, lexerVars, symVars, scriptVars>>

\* buffer[buf_count++] = i; a store outside the array is undefined: it may
\* leave buf_count incremented or overwrite it
ProducerPut ==
    /\ prod.pc = "put"
    /\ IF buf_count \in 0..(BUFFER_SIZE - 1)
          THEN /\ buffer' = [buffer EXCEPT ![buf_count] = prod.i]
               /\ buf_count' = buf_count + 1
          ELSE /\ buffer' = buffer
               /\ buf_count' \in {buf_count + 1, prod.i, prod.i + 1}
    /\ prod' = [prod EXCEPT !.pc = "signal"]
    /\ UNCHANGED <<buf_mutex, cons, parserVars, lexerVars, symVars, scriptVars>>

\* pthread_cond_signal(&not_empty): a consumer blocked in its wait is woken
ProducerSignal ==
    /\ prod.pc = "signal"
    /\ cons' = IF cons.pc = "wait" THEN [cons EXCEPT !.pc = "woken"] ELSE cons
    /\ prod' = [prod EXCEPT !.pc = "unlock"]
    /\ UNCHANGED <<buffer, buf_count, buf_mutex, parserVars, lexerVars, symVars, scriptVars>>

\* pthread_mutex_unlock(&buf_mutex), usleep, i++ and the test i < 8
ProducerUnlock ==
    /\ prod.pc = "unlock"
    /\ buf_mutex' = IF buf_mutex = "producer" THEN "free" ELSE buf_mutex
    /\ prod' = [pc |-> IF prod.i + 1 < Items THEN "lock" ELSE "done", i |-> prod.i + 1]
    /\ UNCHANGED <<buffer, buf_count, cons, parserVars, lexerVars, symVars, scriptVars>>

\* pthread_mutex_lock(&buf_mutex)
ConsumerLock ==
    /\ cons.pc = "lock"
    /\ buf_mutex = "free"
    /\ buf_mutex' = "consumer"
    /\ cons' = [cons EXCEPT !.pc = "while"]
    /\ UNCHANGED <<buffer, buf_count, prod, parserVars, lexerVars, symVars, scriptVars>>

\* while (buf_count == 0) pthread_cond_wait(&not_empty, &buf_mutex)
ConsumerWhile ==
    /\ cons.pc = "while"
    /\ IF buf_count = 0
          THEN cons' = [cons EXCEPT !.pc = "wait"] /\ buf_mutex' = "free"
          ELSE cons' = [cons EXCEPT !.pc = "get"] /\ buf_mutex' = buf_mutex
    /\ UNCHANGED <<buffer, buf_count, prod, parserVars, lexerVars, symVars, scriptVars>>

\* pthread_cond_wait takes buf_mutex again and returns
ConsumerReacquire ==
    /\ cons.pc = "woken"
    /\ buf_mutex = "free"
    /\ buf_mutex' = "consumer"
    /\ cons' = [cons EXCEPT !.pc = wait_returns_to("get")]
    /\ UNCHANGED <<buffer, buf_count, prod, parserVars, lexerVars, symVars, scriptVars>>

\* int val = buffer[--buf_count]; a load outside the array is undefined: it
\* may give any int
ConsumerGet ==
    /\ cons.pc = "get"
    /\ buf_count' = buf_count - 1
    /\ IF buf_count - 1 \in 0..(BUFFER_SIZE - 1)
          THEN cons' = [cons EXCEPT !.pc = "signal", !.val = buffer[buf_count - 1]]
          ELSE \E v \in 0..(Items - 1) : cons' = [cons EXCEPT !.pc = "signal", !.val = v]
    /\ UNCHANGED <<buffer, buf_mutex, prod, parserVars, lexerVars, symVars, scriptVars>>

\* pthread_cond_signal(&not_full): a producer blocked in its wait is woken
ConsumerSignal ==
    /\ cons.pc = "signal"
    /\ prod' = IF prod.pc = "wait" THEN [prod EXCEPT !.pc = "woken"] ELSE prod
    /\ cons' = [cons EXCEPT !.pc = "unlock"]
    /\ UNCHANGED <<buffer, buf_count, buf_mutex, parserVars, lexerVars, symVars, scriptVars>>

\* pthread_mutex_unlock(&buf_mutex), usleep, i++ and the test i < 8
ConsumerUnlock ==
    /\ cons.pc = "unlock"
    /\ buf_mutex' = IF buf_mutex = "consumer" THEN "free" ELSE buf_mutex
    /\ cons' = [cons EXCEPT !.pc = IF cons.i + 1 < Items THEN "lock" ELSE "done",
                            !.i = cons.i + 1]
    /\ UNCHANGED <<buffer, buf_count, prod, parserVars, lexerVars, symVars, scriptVars>>

\* a thread blocked in pthread_cond_wait wakes up though nobody signalled
SpuriousWakeup ==
    /\ \/ prod.pc = "wait" /\ prod' = [prod EXCEPT !.pc = "woken"] /\ cons' = cons
       \/ cons.pc = "wait" /\ cons' = [cons EXCEPT !.pc = "woken"] /\ prod' = prod
    /\ UNCHANGED <<buffer, buf_count, buf_mutex, parserVars, lexerVars, symVars, scriptVars>>

-----------------------------------------------------------------------------
(* Specifications                                                          *)

ParserIdle ==
    /\ expression = <<>>
    /\ p = [lexer |-> [src |-> <<>>, pos |-> 0], current |-> MakeTok("T_EOF", 0, NUL)]
    /\ heap = <<>>
    /\ stack = <<>>
    /\ ret = NULL
    /\ parse_errors = 0
    /\ ast = NULL
    /\ result = 0
    /\ runtime_errors = 0
    /\ freed = <<>>
    /\ ppc = "idle"

LexerIdle ==
    /\ source = <<>>
    /\ max_tokens = MAX_TOKENS
    /\ lex = lexer_init(<<>>)
    /\ tokens = <<>>
    /\ count = 0
    /\ tpc = "idle"

\* the statics of chapter 14 before demo_producer_consumer starts its threads
ConcIdle ==
    /\ buffer = [k \in 0..(BUFFER_SIZE - 1) |-> 0]
    /\ buf_count = 0
    /\ buf_mutex = "free"
    /\ prod = [pc |-> "idle", i |-> 0]
    /\ cons = [pc |-> "idle", i |-> 0, val |-> 0]

\* no demo of chapter 20 and no thread of chapter 14 is running
SymIdle ==
    /\ st = symtab_init
    /\ sym_call = [fn |-> "idle", printed |-> "none", scope |-> 0]
    /\ lhs_type = "TYPE_UNKNOWN"
    /\ rhs_type = "TYPE_UNKNOWN"
    /\ script = <<>>
    /\ script_pc = 0
    /\ ConcIdle

ParserInit ==
    /\ expression \in Expressions
    /\ p = [lexer |-> [src |-> <<>>, pos |-> 0], current |-> MakeTok("T_EOF", 0, NUL)]
    /\ heap = <<>>
    /\ stack = <<>>
    /\ ret = NULL
    /\ parse_errors = 0
    /\ ast = NULL
    /\ result = 0
    /\ runtime_errors = 0
    /\ freed = <<>>
    /\ ppc = "start"
    /\ LexerIdle
    /\ SymIdle

LexerInit ==
    /\ source \in Sources
    /\ max_tokens \in {SmallMax, MAX_TOKENS}
    /\ lex = lexer_init(<<>>)
    /\ tokens = <<>>
    /\ count = 0
    /\ tpc = "start"
    /\ ParserIdle
    /\ SymIdle

\* a table fresh from symtab_init
SymInit ==
    /\ st = symtab_init
    /\ sym_call = [fn |-> "symtab_init", printed |-> "none", scope |-> 0]
    /\ lhs_type = "TYPE_UNKNOWN"
    /\ rhs_type = "TYPE_UNKNOWN"
    /\ script = <<>>
    /\ script_pc = 0
    /\ ConcIdle
    /\ ParserIdle
    /\ LexerIdle

\* a demo of chapter 20 after its symtab_init
ScriptInit ==
    /\ st = symtab_init
    /\ sym_call = [fn |-> "symtab_init", printed |-> "none", scope |-> 0]
    /\ lhs_type = "TYPE_UNKNOWN"
    /\ rhs_type = "TYPE_UNKNOWN"
    /\ script \in Scripts
    /\ script_pc = 0
    /\ ConcIdle
    /\ ParserIdle
    /\ LexerIdle

\* demo_producer_consumer is about to run
ConcInit ==
    /\ ParserIdle
    /\ LexerIdle
    /\ SymIdle

\* a table with any diagnostics counted so far, and the two types of an assignment
TypeInit ==
    /\ \E e \in 0..MaxDiagnostics, w \in 0..MaxDiagnostics :
          /\ e + w <= MaxDiagnostics
          /\ st = [symtab_init EXCEPT !.errors = e, !.warnings = w]
    /\ sym_call = [fn |-> "symtab_init", printed |-> "none", scope |-> 0]
    /\ lhs_type \in VarType
    /\ rhs_type \in VarType
    /\ script = <<>>
    /\ script_pc = 0
    /\ ConcIdle
    /\ ParserIdle
    /\ LexerIdle

ParserNext ==
    \/ DemoStart
    \/ FactorMinus
    \/ FactorMinusReturn
    \/ FactorParen
    \/ FactorParenReturn
    \/ FactorInt
    \/ FactorUnexpected
    \/ TermEntry
    \/ TermFirstReturn
    \/ TermLoopOperator
    \/ TermRightReturn
    \/ TermLoopExit
    \/ ExprEntry
    \/ ExprFirstReturn
    \/ ExprLoopOperator
    \/ ExprRightReturn
    \/ ExprLoopExit
    \/ DemoParsed
    \/ DemoEval
    \/ DemoFree

LexerNext ==
    \/ TokenizeStart
    \/ TokenizeStep
    \/ TokenizeFull

SymNext ==
    \/ SymtabInsert
    \/ SymtabPushScope
    \/ SymtabPopScope
    \/ CheckUse

TypeNext == CheckAssignmentCompat

ScopeNext ==
    \/ DeepInsert
    \/ DeepPushScope
    \/ SymtabPopScope

\* the chapter-19 pipeline, every other chapter idle
ParserSpec == ParserInit /\ [][ParserNext]_vars

\* demo_parse_and_eval runs to its end: no step is postponed forever
FairParserSpec == ParserSpec /\ WF_vars(ParserNext)

\* the chapter-18 tokenizer, every other chapter idle
LexerSpec == LexerInit /\ [][LexerNext]_vars

\* tokenize_all runs to its return: no iteration is postponed forever. This is
\* WF_vars(LexerNext) with ENABLED <<LexerNext>>_vars written out: a step of
\* LexerNext that changes vars is enabled exactly when tpc is "start"
\* (TokenizeStart) or "loop" (TokenizeStep or TokenizeFull).
FairLexerSpec ==
    LexerSpec /\ ([]<>(tpc \notin {"start", "loop"}) \/ []<><<LexerNext>>_vars)

\* the chapter-20 symbol table under any sequence of calls, every other chapter idle
SymSpec == SymInit /\ [][SymNext]_vars

\* scopes nested past MAX_SCOPES, every other chapter idle
ScopeSpec == SymInit /\ [][ScopeNext]_vars

\* check_assignment_compat on every pair of types, every other chapter idle
TypeSpec == TypeInit /\ [][TypeNext]_vars

\* the demos of chapter 20 call by call, every other chapter idle
ScriptSpec == ScriptInit /\ [][ScriptCall]_vars

\* the next step of the producer thread
ProducerNext ==
    \/ ProducerLock
    \/ ProducerWhile
    \/ ProducerReacquire
    \/ ProducerPut
    \/ ProducerSignal
    \/ ProducerUnlock

\* the next step of the consumer thread
ConsumerNext ==
    \/ ConsumerLock
    \/ ConsumerWhile
    \/ ConsumerReacquire
    \/ ConsumerGet
    \/ ConsumerSignal
    \/ ConsumerUnlock

ConcNext ==
    \/ DemoProducerConsumer
    \/ ProducerNext
    \/ ConsumerNext
    \/ SpuriousWakeup

\* demo_producer_consumer in every interleaving of its two threads, every
\* other chapter idle
ConcSpec == ConcInit /\ [][ConcNext]_vars

\* the threads are scheduled: a thread that can run does run, and a thread
\* that asks for buf_mutex gets it when it is released again and again; no
\* spurious wake-up ever has to happen
FairConcSpec ==
    /\ ConcSpec
    /\ WF_vars(DemoProducerConsumer)
    /\ WF_vars(ProducerNext)
    /\ WF_vars(ConsumerNext)
    /\ SF_vars(ProducerLock \/ ProducerReacquire)
    /\ SF_vars(ConsumerLock \/ ConsumerReacquire)

-----------------------------------------------------------------------------
(* The grammar of the file header, stated on token sequences, as the       *)
(* reference the parser is compared with:                                  *)
(*   expr -> term (('+'|'-') term)*   term -> factor (('*'|'/') factor)*   *)
(*   factor -> INTEGER | '(' expr ')' | '-' factor                         *)

\* the tokens of a string up to end of input
RECURSIVE TokensFrom(_)
TokensFrom(lx) ==
    LET r == expr_next_token(lx)
    IN  IF r.tok.type = "T_EOF" THEN <<>> ELSE <<r.tok>> \o TokensFrom(r.lexer)

Tokens(s) == TokensFrom([src |-> s, pos |-> 0])

Additive == {"T_PLUS", "T_MINUS"}
Multiplicative == {"T_STAR", "T_SLASH"}

\* number of parentheses open before token i
DepthBefore(ts, i) ==
    Cardinality({k \in 1..(i - 1) : ts[k].type = "T_LPAREN"})
        - Cardinality({k \in 1..(i - 1) : ts[k].type = "T_RPAREN"})

\* token i is a binary operator of the given tier outside all parentheses
BinaryAt(ts, i, tier) ==
    /\ i > 1
    /\ ts[i].type \in tier
    /\ ts[i - 1].type \in {"T_INT", "T_RPAREN"}
    /\ DepthBefore(ts, i) = 0


\* the last binary operator of the tier outside all parentheses, or 0
LastBinary(ts, tier) ==
    LET I == {i \in 1..Len(ts) : BinaryAt(ts, i, tier)}
    IN  IF I = {} THEN 0 ELSE SetMax(I)

Before(ts, i) == SubSeq(ts, 1, i - 1)
After(ts, i) == SubSeq(ts, i + 1, Len(ts))
Inside(ts) == SubSeq(ts, 2, Len(ts) - 1)

\* ts is a sentence of expr
RECURSIVE WellFormed(_)
WellFormed(ts) ==
    IF ts = <<>> THEN FALSE
    ELSE IF LastBinary(ts, Additive) # 0
        THEN /\ WellFormed(Before(ts, LastBinary(ts, Additive)))
             /\ WellFormed(After(ts, LastBinary(ts, Additive)))
    ELSE IF LastBinary(ts, Multiplicative) # 0
        THEN /\ WellFormed(Before(ts, LastBinary(ts, Multiplicative)))
             /\ WellFormed(After(ts, LastBinary(ts, Multiplicative)))
    ELSE IF ts[1].type = "T_MINUS" THEN WellFormed(Tail(ts))
    ELSE IF ts[1].type = "T_LPAREN"
        THEN ts[Len(ts)].type = "T_RPAREN" /\ WellFormed(Inside(ts))
    ELSE Len(ts) = 1 /\ ts[1].type = "T_INT"

\* ts is a sentence of factor
IsFactor(ts) ==
    /\ WellFormed(ts)
    /\ LastBinary(ts, Additive) = 0
    /\ LastBinary(ts, Multiplicative) = 0

\* trees as values: <<kind, value, children>>
Leaf(v) == <<"INT", v, <<>>>>
Neg(c) == <<"NEG", 0, <<c>>>>
Bin(op, l, r) == <<op, 0, <<l, r>>>>

OpOf(tok) ==
    CASE tok.type = "T_PLUS" -> "+" [] tok.type = "T_MINUS" -> "-"
      [] tok.type = "T_STAR" -> "*" [] tok.type = "T_SLASH" -> "/"

\* the tree the grammar gives a well-formed token sequence, operators of one
\* tier grouping to the left
RECURSIVE RefTree(_)
RefTree(ts) ==
    LET a == LastBinary(ts, Additive)
        m == LastBinary(ts, Multiplicative)
    IN  IF a # 0 THEN Bin(OpOf(ts[a]), RefTree(Before(ts, a)), RefTree(After(ts, a)))
        ELSE IF m # 0 THEN Bin(OpOf(ts[m]), RefTree(Before(ts, m)), RefTree(After(ts, m)))
        ELSE IF ts[1].type = "T_MINUS" THEN Neg(RefTree(Tail(ts)))
        ELSE IF ts[1].type = "T_LPAREN" THEN RefTree(Inside(ts))
        ELSE Leaf(ts[1].value)

\* the value of a tree, a division by zero counting as 0
RECURSIVE TreeValue(_)
TreeValue(t) ==
    IF t[1] = "INT" THEN t[2]
    ELSE IF t[1] = "NEG" THEN -TreeValue(t[3][1])
    ELSE IF t[1] = "NULL" THEN 0
    ELSE LET l == TreeValue(t[3][1])
             r == TreeValue(t[3][2])
         IN  CASE t[1] = "+" -> l + r
               [] t[1] = "-" -> l - r
               [] t[1] = "*" -> l * r
               [] t[1] = "/" -> IF r = 0 THEN 0 ELSE CDiv(l, r)
               [] OTHER -> 0

\* the tree below node n of heap h
RECURSIVE TreeOf(_, _)
TreeOf(h, n) ==
    IF n = NULL THEN <<"NULL", 0, <<>>>>
    ELSE IF h[n].type = "NODE_INT" THEN Leaf(h[n].int_value)
    ELSE IF h[n].type = "NODE_UNARY_NEG" THEN Neg(TreeOf(h, h[n].left))
    ELSE Bin(h[n].op, TreeOf(h, h[n].left), TreeOf(h, h[n].right))

Parsed == ppc \in {"parsed", "evaluated"}
Evaluated == ppc = "evaluated"

\* the strings of the examples
Str_10m3m2 == <<"1", "0", " ", "-", " ", "3", " ", "-", " ", "2">>
Str_3p4t2 == <<"3", " ", "+", " ", "4", " ", "*", " ", "2">>
Str_p3p4t2 == <<"(", "3", " ", "+", " ", "4", ")", " ", "*", " ", "2">>
Str_nested == <<"(", "(", "2", " ", "+", " ", "3", ")", " ", "*", " ",
                "(", "4", " ", "-", " ", "1", ")", ")">>
Str_m5p3 == <<"-", "5", " ", "+", " ", "3">>
Str_10d0 == <<"1", "0", " ", "/", " ", "0">>
Str_5p10d0 == <<"5", " ", "+", " ", "1", "0", " ", "/", " ", "0">>
Str_p3p4 == <<"(", "3", " ", "+", " ", "4">>

-----------------------------------------------------------------------------
(* Claims                                                                  *)

\* C1: left-associativity. Whenever the input is  a op1 b op2 c  with a, b, c
\* factors and op1, op2 both additive or both multiplicative, the tree returned
\* is BinaryOp(op2, BinaryOp(op1, a, b), c); "10 - 3 - 2" evaluates to 5.
C1_LeftAssociative ==
    /\ Parsed =>
         LET ts == Tokens(expression)
         IN  \A i, j \in 1..Len(ts) :
               ( /\ i < j
                 /\ \/ {ts[i].type, ts[j].type} \subseteq Additive
                    \/ {ts[i].type, ts[j].type} \subseteq Multiplicative
                 /\ IsFactor(Before(ts, i))
                 /\ IsFactor(SubSeq(ts, i + 1, j - 1))
                 /\ IsFactor(After(ts, j)) )
               => TreeOf(heap, ast) =
                    Bin(OpOf(ts[j]),
                        Bin(OpOf(ts[i]), RefTree(Before(ts, i)),
                                         RefTree(SubSeq(ts, i + 1, j - 1))),
                        RefTree(After(ts, j)))
    /\ (Evaluated /\ expression = Str_10m3m2) => result = 5

C1_Witness ==
    /\ Evaluated
    /\ expression = Str_10m3m2
    /\ heap[ast].op = "-"
    /\ heap[heap[ast].left].type = "NODE_BINOP"
    /\ result = 5

NoDiagnostic == parse_errors = 0 /\ runtime_errors = 0

\* C2: precedence. For every well-formed expression the parser reports no
\* error and the value is the one of the grammar's tree: unary minus tightest,
\* then * and /, then + and -, parentheses overriding.
C2_Precedence ==
    Evaluated =>
        /\ WellFormed(Tokens(expression)) =>
             /\ parse_errors = 0
             /\ result = TreeValue(RefTree(Tokens(expression)))
        /\ expression = Str_3p4t2 => (result = 11 /\ NoDiagnostic)
        /\ expression = Str_p3p4t2 => (result = 14 /\ NoDiagnostic)
        /\ expression = Str_nested => (result = 15 /\ NoDiagnostic)
        /\ expression = Str_m5p3 => (result = -2 /\ NoDiagnostic)

C2_Witness ==
    /\ Evaluated
    /\ expression = Str_p3p4t2
    /\ WellFormed(Tokens(expression))
    /\ result = 14

\* a '/' node whose right operand evaluates to 0
ZeroDivisor(n) ==
    /\ heap[n].type = "NODE_BINOP"
    /\ heap[n].op = "/"
    /\ eval_ast(heap, heap[n].right).value = 0

\* C3: division by zero. Every '/' node whose right operand evaluates to 0
\* evaluates to 0 and reports exactly one runtime error; the nodes above go on
\* with that 0, so every such node of the tree reports ("10 / 0" is 0,
\* "5 + 10 / 0" is 5).
C3_DivisionByZero ==
    Evaluated =>
        /\ \A n \in 1..Len(heap) :
             ZeroDivisor(n) =>
                /\ eval_ast(heap, n).value = 0
                /\ eval_ast(heap, n).errors =
                      eval_ast(heap, heap[n].left).errors
                        + eval_ast(heap, heap[n].right).errors + 1
        /\ runtime_errors = Cardinality({n \in 1..Len(heap) : ZeroDivisor(n)})
        /\ result = TreeValue(TreeOf(heap, ast))
        /\ expression = Str_10d0 => (result = 0 /\ runtime_errors = 1)
        /\ expression = Str_5p10d0 => (result = 5 /\ runtime_errors = 1)

C3_Witness ==
    /\ Evaluated
    /\ expression = Str_5p10d0
    /\ runtime_errors = 1
    /\ result = 5

\* a step that starts another loop iteration of parse_expr or parse_term, or a
\* recursive call of parse_factor
Iterates ==
    \/ Running("parse_expr", "loop") /\ p.current.type \in Additive
    \/ Running("parse_term", "loop") /\ p.current.type \in Multiplicative
    \/ Running("parse_factor", "entry") /\ p.current.type \in {"T_MINUS", "T_LPAREN"}

\* the tokens not yet consumed: the lookahead and what the lexer has left
Remaining(q) ==
    Len(TokensFrom(q.lexer)) + (IF q.current.type = "T_EOF" THEN 0 ELSE 1)

\* C4: the parser terminates with a non-null root on every input, and every
\* loop iteration and every recursion of parse_factor consumes a token.
C4_Terminates ==
    /\ <>(ppc = "parsed" /\ ast # NULL)
    /\ [][Iterates => Remaining(p') < Remaining(p)]_vars

C4_Witness ==
    /\ ppc = "parsed"
    /\ ast # NULL
    /\ parse_errors > 1
    /\ \E i \in 1..Len(expression) : expression[i] = "$"

\* parse_factor is entered with a lookahead that starts no factor
UnexpectedLookahead ==
    /\ Running("parse_factor", "entry")
    /\ p.current.type \in {"T_PLUS", "T_STAR", "T_SLASH", "T_RPAREN", "T_EOF", "T_ERROR"}

\* C5: parse_factor on a lookahead that is not '-', '(' or an integer reports
\* one parse error, returns IntLiteral(0) and leaves the lookahead unconsumed.
C5_UnexpectedToken ==
    [][UnexpectedLookahead =>
          /\ parse_errors' = parse_errors + 1
          /\ p' = p
          /\ stack' = Caller
          /\ ret' # NULL
          /\ Len(heap') = Len(heap) + 1
          /\ ret' = Len(heap')
          /\ TreeOf(heap', ret') = Leaf(0)]_vars

C5_Witness ==
    /\ ppc = "parsing"
    /\ expression = <<"3", "*", ")">>
    /\ p.current.type = "T_RPAREN"
    /\ parse_errors = 1
    /\ ret # NULL
    /\ heap[ret] = make_int_node(0)

\* parse_factor has parsed '(' expr and the lookahead is not ')'
MissingParen ==
    /\ Running("parse_factor", "paren")
    /\ p.current.type # "T_RPAREN"

\* C6: a missing ')' is reported once, the lookahead is not consumed and the
\* inner expression's node is returned unchanged; "(3 + 4" evaluates to 7.
C6_MissingParen ==
    /\ [][MissingParen =>
            /\ parse_errors' = parse_errors + 1
            /\ p' = p
            /\ ret' = ret
            /\ heap' = heap
            /\ stack' = Caller]_vars
    /\ []((Evaluated /\ expression = Str_p3p4) => (result = 7 /\ parse_errors = 1))

C6_Witness ==
    /\ Evaluated
    /\ expression = Str_p3p4
    /\ parse_errors = 1
    /\ result = 7

-----------------------------------------------------------------------------
(* Chapter 18: claims about lexer_next_token                               *)

\* tokenize_all is about to call lexer_next_token
Stepping == tpc = "loop" /\ count < max_tokens

\* the cursor of that call once whitespace and comments are skipped
AtToken == lexer_skip_whitespace_comments(lex)

\* the token the call stores
Stored == tokens'[count']

SingleChars == {"+", "-", "*", "=", ";", "(", ")", "{", "}"}

KindOf(c) ==
    CASE c = "+" -> "TOK_PLUS"      [] c = "-" -> "TOK_MINUS"
      [] c = "*" -> "TOK_STAR"      [] c = "=" -> "TOK_ASSIGN"
      [] c = ";" -> "TOK_SEMICOLON" [] c = "(" -> "TOK_LPAREN"
      [] c = ")" -> "TOK_RPAREN"    [] c = "{" -> "TOK_LBRACE"
      [] c = "}" -> "TOK_RBRACE"

C8_SlashIsOperator ==
    [][(Stepping /\ lexer_peek(AtToken) = "/") =>
          /\ Stored.type = "TOK_SLASH"
          /\ Stored.text = <<"/">>]_vars

\* a character no rule of the tokenizer recognises
Offending(c) ==
    /\ c # NUL
    /\ c \notin SingleChars
    /\ c \notin Digits
    /\ c \notin Lower \cup Upper
    /\ c # "_"

\* every token from lexer state lx on, end of input included
RECURSIVE RestTokens(_)
RestTokens(lx) ==
    LET r == lexer_next_token(lx)
    IN  IF r.tok.type = "TOK_EOF" THEN <<r.tok>> ELSE <<r.tok>> \o RestTokens(r.lex)

\* string s with the character at position i (from 0) replaced by c
ReplaceAt(s, i, c) == [k \in 1..Len(s) |-> IF k = i + 1 THEN c ELSE s[k]]

\* C9: an unrecognised character comes back as an error token holding that
\* character, the cursor moves by exactly one, and the whole token stream is
\* the one of the input with that character turned into a blank, plus the
\* error token.
C9_ErrorRecovery ==
    [][(Stepping /\ Offending(lexer_peek(AtToken))) =>
          /\ Stored = MakeToken("TOK_ERROR", <<lexer_peek(AtToken)>>,
                                AtToken.line, AtToken.col)
          /\ lex'.pos = AtToken.pos + 1
          /\ tokens \o RestTokens(lex')
               = RestTokens(lexer_init(ReplaceAt(source, AtToken.pos, " ")))]_vars

C9_Witness ==
    /\ tpc = "returned"
    /\ source = <<"x", "$", "7">>
    /\ count = 4
    /\ tokens[2] = MakeToken("TOK_ERROR", <<"$">>, 1, 2)
    /\ tokens[3] = MakeToken("TOK_INT_LITERAL", <<"7">>, 1, 3)

IsSpace(c) == c \in {" ", "\t", "\n", "\r"}

\* where the line comment whose text starts at i ends: the next newline or the end
LineEnd(s, i) == SetMin({j \in i..Len(s) : j = Len(s) \/ Ch(s, j) = "\n"})

\* the position after the block comment whose text starts at i
BlockEnd(s, i) ==
    LET J == {j \in i..(Len(s) - 2) : Ch(s, j) = "*" /\ Ch(s, j + 1) = "/"}
    IN  IF J = {} THEN Len(s) ELSE SetMin(J) + 2

\* the first position at or after i that holds whitespace or a slash, or the end
NextSeparator(s, i) ==
    SetMin({j \in i..Len(s) : j = Len(s) \/ IsSpace(Ch(s, j)) \/ Ch(s, j) = "/"})

\* the positions (from 0) of s at or after i that are whitespace or comment
RECURSIVE Skippable(_, _)
Skippable(s, i) ==
    IF i >= Len(s) THEN {}
    ELSE IF IsSpace(Ch(s, i)) THEN {i} \cup Skippable(s, i + 1)
    ELSE IF Ch(s, i) = "/" /\ Ch(s, i + 1) = "/"
        THEN (i..(LineEnd(s, i + 2) - 1)) \cup Skippable(s, LineEnd(s, i + 2))
    ELSE IF Ch(s, i) = "/" /\ Ch(s, i + 1) = "*"
        THEN (i..(BlockEnd(s, i + 2) - 1)) \cup Skippable(s, BlockEnd(s, i + 2))
    ELSE Skippable(s, NextSeparator(s, i + 1))

Prefix(s, n) == SubSeq(s, 1, IF Len(s) < n THEN Len(s) ELSE n)

\* C10: each call skips exactly a run of whitespace and comment characters and
\* the token it returns is made of the characters that follow, none of them
\* whitespace or comment; when only whitespace and comments are left, an
\* unterminated block comment included, the token is end-of-input.
C10_SkipsWhitespaceAndComments ==
    [][Stepping =>
          /\ \E a \in lex.pos..lex'.pos :
                /\ \A k \in lex.pos..(a - 1) : k \in Skippable(source, 0)
                /\ \A k \in a..(lex'.pos - 1) : k \notin Skippable(source, 0)
                /\ IF Stored.type = "TOK_EOF"
                       THEN a = Len(source)
                       ELSE /\ a < lex'.pos
                            /\ Stored.text = Prefix(SubSeq(source, a + 1, lex'.pos), TEXT_MAX)
          /\ (\A k \in lex.pos..(Len(source) - 1) : k \in Skippable(source, 0))
                => Stored.type = "TOK_EOF"]_vars

C10_Witness ==
    /\ tpc = "returned"
    /\ source = <<"x", "/", "/", "\n", "/", "*">>
    /\ count = 2
    /\ tokens[1].text = <<"x">>
    /\ tokens[2].type = "TOK_EOF"
    /\ lex.pos = 6

-----------------------------------------------------------------------------
(* Chapter 18: words, numbers and the round trip                           *)

WordChars == Lower \cup Upper \cup Digits \cup {"_"}

\* positions a up to, not including, b of s are a run of characters of S that
\* cannot be extended at b
MaximalRun(s, a, b, S) ==
    /\ a < b
    /\ \A k \in a..(b - 1) : Ch(s, k) \in S
    /\ Ch(s, b) \notin S

\* the characters of s from position a up to, not including, position b
Slice(s, a, b) == SubSeq(s, a + 1, b)

\* the kind of a word, by the whole run
WordKind(run) ==
    CASE run = <<"i", "n", "t">> -> "TOK_KW_INT"
      [] run = <<"r", "e", "t", "u", "r", "n">> -> "TOK_KW_RETURN"
      [] OTHER -> "TOK_IDENTIFIER"

C11_KeywordWitness ==
    /\ tpc = "returned"
    /\ source = <<"i", "n", "t", "1">>
    /\ count = 2
    /\ tokens[1] = MakeToken("TOK_IDENTIFIER", <<"i", "n", "t", "1">>, 1, 1)

\* the characters of s that are neither whitespace nor inside a comment
Stripped(s) ==
    LET skip == Skippable(s, 0)
        kept == SelectSeq([i \in 1..Len(s) |-> i], LAMBDA i : (i - 1) \notin skip)
    IN  [k \in 1..Len(kept) |-> s[kept[k]]]

\* the lexemes of the tokens before end-of-input, one after the other
Lexemes(ts) ==
    LET F[i \in 0..Len(ts)] ==
            IF i = 0 THEN <<>>
            ELSE IF ts[i].type = "TOK_EOF" THEN F[i - 1] ELSE F[i - 1] \o ts[i].text
    IN  F[Len(ts)]

\* the input holds supported tokens, whitespace and comments only
Supported(s) ==
    \A i \in 0..(Len(s) - 1) :
        i \in Skippable(s, 0) \/ Ch(s, i) \in WordChars \cup SingleChars

\* C12: tokenize_all run with the MAX_TOKENS of the program on an input of
\* supported tokens, whitespace and comments: the lexemes of the tokens before
\* end-of-input, concatenated, are the input without whitespace and comments.
C12_RoundTrip ==
    (tpc = "returned" /\ max_tokens = MAX_TOKENS /\ Supported(source))
        => Lexemes(tokens) = Stripped(source)

-----------------------------------------------------------------------------
(* Chapter 20: claims about the symbol table                               *)

\* every symbol of table t, whatever chain it is in
AllSymbols(t) ==
    UNION {{t.buckets[i][k] : k \in 1..Len(t.buckets[i])} : i \in 0..(SYMTAB_SIZE - 1)}

\* the symbols of t whose name is name
Named(t, name) == {sym \in AllSymbols(t) : sym.name = name}

\* the symbols of S declared at the highest level found in S
Innermost(S) == {sym \in S : \A other \in S : other.scope_level <= sym.scope_level}

\* C13: in every reachable state symtab_lookup(name) is null exactly when no
\* symbol of the table has that name, and otherwise it is a symbol of that
\* name whose scope_level is the highest among the symbols of that name.
C13_InnermostLookup ==
    \A name \in Names :
        /\ symtab_lookup(st, name) = NoSymbol <=> Named(st, name) = {}
        /\ Named(st, name) # {} => symtab_lookup(st, name) \in Innermost(Named(st, name))

\* a symbol named name is declared at the current level of t
DeclaredHere(t, name) == \E sym \in Named(t, name) : sym.scope_level = t.current_scope

\* C14: symtab_insert of a name that a symbol of the current scope level
\* already has returns null, adds one to the error counter and changes nothing
\* else: no symbol is added, the existing symbols, total_symbols, the warning
\* counter and the current scope stay as they are.
C14_Redeclaration ==
    [][\A d \in Declarations :
          (Insert(d[1], d[2], d[3], d[4]) /\ DeclaredHere(st, d[1])) =>
              /\ symtab_insert(st, d[1], d[2], d[3], d[4]).ret = NoSymbol
              /\ st' = [st EXCEPT !.errors = @ + 1]]_vars

\* name is declared in t, and only at levels below the current one
DeclaredOutsideOnly(t, name) ==
    /\ Named(t, name) # {}
    /\ \A sym \in Named(t, name) : sym.scope_level < t.current_scope

\* C15: symtab_insert of a name declared only at outer levels succeeds, adds
\* one to the warning counter and nothing to the error counter, and lookup then
\* returns the new symbol; the pop_scope that leaves the level of a shadowing
\* symbol makes lookup return the shadowed outer symbol again, as it was.
C15_Shadowing ==
    [][/\ \A d \in Declarations :
             (Insert(d[1], d[2], d[3], d[4]) /\ DeclaredOutsideOnly(st, d[1])) =>
                 /\ st'.warnings = st.warnings + 1
                 /\ st'.errors = st.errors
                 /\ st'.total_symbols = st.total_symbols + 1
                 /\ symtab_lookup(st', d[1]) =
                        [name |-> d[1], type |-> d[2], scope_level |-> st.current_scope,
                         is_initialised |-> d[3], line_declared |-> d[4]]
       /\ \A name \in Names :
             LET outer == {sym \in Named(st, name) : sym.scope_level < st.current_scope}
             IN  (PopScope /\ st.scope_top > 0 /\ DeclaredHere(st, name) /\ outer # {}) =>
                     symtab_lookup(st', name) \in Innermost(outer)]_vars

\* the symbols of a chain that are not of level scope, in their order
RECURSIVE Keep(_, _)
Keep(chain, scope) ==
    IF chain = <<>> THEN <<>>
    ELSE IF Head(chain).scope_level = scope THEN Keep(Tail(chain), scope)
    ELSE <<Head(chain)>> \o Keep(Tail(chain), scope)

\* C16: after symtab_pop_scope no symbol of the level that was current at the
\* call is left in any chain and lookup returns no symbol of that level; the
\* symbols of the other levels stay in their chains as they were.
C16_PopRemovesLevel ==
    [][PopScope =>
          /\ \A sym \in AllSymbols(st') : sym.scope_level # st.current_scope
          /\ \A name \in Names : symtab_lookup(st', name).scope_level # st.current_scope
          /\ \A i \in 0..(SYMTAB_SIZE - 1) :
                st'.buckets[i] = Keep(st.buckets[i], st.current_scope)]_vars

\* the block of float x is left: float x is gone, int x of level 0 is still there
C16_Witness ==
    /\ sym_call = [fn |-> "symtab_pop_scope", printed |-> "none", scope |-> 1]
    /\ st.current_scope = 0
    /\ st.warnings = 1
    /\ st.errors = 0
    /\ st.total_symbols = 1
    /\ AllSymbols(st) = {[name |-> <<"x">>, type |-> "TYPE_INT", scope_level |-> 0,
                          is_initialised |-> 1, line_declared |-> 1]}

\* C17: push_scope saves the current level on the scope stack and adds one to
\* it, and leaving a block (a pop_scope at a level above 0) takes exactly one
\* off again, at any nesting depth.
C17_ScopeLifo ==
    [][/\ PushScope =>
             /\ st'.current_scope = st.current_scope + 1
             /\ st'.scope_top = st.scope_top + 1
             /\ st'.scope_stack[st.scope_top] = st.current_scope
       /\ (PopScope /\ st.current_scope > 0) =>
             st'.current_scope = st.current_scope - 1]_vars

Numeric == {"TYPE_INT", "TYPE_FLOAT", "TYPE_CHAR"}
Pointer == {"TYPE_INT_PTR", "TYPE_FLOAT_PTR", "TYPE_CHAR_PTR"}

\* the table after a call that printed an error, a warning, or neither
Errors(t) == [t EXCEPT !.errors = @ + 1]
Warnings(t) == [t EXCEPT !.warnings = @ + 1]

\* C18: over int, float, char and the three pointer types
\* check_assignment_compat changes nothing on identical types and on char with
\* float, counts one error on two different pointer types and on a pointer
\* with a numeric type, and counts one warning on int with float and on int
\* with char, in either direction.
C18_CompatTable ==
    [][(CheckAssignmentCompat /\ {lhs_type, rhs_type} \subseteq Numeric \cup Pointer) =>
          st' = IF lhs_type = rhs_type THEN st
                ELSE IF {lhs_type, rhs_type} \subseteq Pointer THEN Errors(st)
                ELSE IF {lhs_type, rhs_type} \cap Pointer # {} THEN Errors(st)
                ELSE IF {lhs_type, rhs_type} = {"TYPE_INT", "TYPE_FLOAT"} THEN Warnings(st)
                ELSE IF {lhs_type, rhs_type} = {"TYPE_INT", "TYPE_CHAR"} THEN Warnings(st)
                ELSE st]_vars

C18_Witness ==
    /\ sym_call = [fn |-> "check_assignment_compat", printed |-> "WARNING", scope |-> 0]
    /\ lhs_type = "TYPE_CHAR"
    /\ rhs_type = "TYPE_INT"
    /\ st.warnings = 1
    /\ st.errors = 0

\* the pairs of different types the tests before the fallback name
BeforeFallback(lhs, rhs) ==
    \/ {lhs, rhs} \subseteq Pointer
    \/ {lhs, rhs} \cap Pointer # {} /\ {lhs, rhs} \cap Numeric # {}
    \/ {lhs, rhs} = {"TYPE_INT", "TYPE_FLOAT"}
    \/ {lhs, rhs} = {"TYPE_INT", "TYPE_CHAR"}

\* C19 as stated: every pair of different types that is not pointer with
\* pointer, pointer with numeric, float with int or char with int counts one
\* error.
C19_FallbackIsError ==
    [][(CheckAssignmentCompat /\ lhs_type # rhs_type /\ ~BeforeFallback(lhs_type, rhs_type))
          => st' = Errors(st)]_vars

\* C19 amended: every such pair other than char with float counts one error,
\* so every pair of void or unknown with a different type does; char with
\* float changes nothing.
C19_FallbackAmended ==
    [][(CheckAssignmentCompat /\ lhs_type # rhs_type /\ ~BeforeFallback(lhs_type, rhs_type))
          => st' = IF {lhs_type, rhs_type} = {"TYPE_CHAR", "TYPE_FLOAT"}
                       THEN st ELSE Errors(st)]_vars

C19_Witness ==
    /\ sym_call = [fn |-> "check_assignment_compat", printed |-> "ERROR", scope |-> 0]
    /\ lhs_type = "TYPE_VOID"
    /\ rhs_type = "TYPE_INT"
    /\ st.errors = 1
    /\ st.warnings = 0

\* C20: check_use counts one error, and nothing else, when lookup finds no
\* symbol; one warning when the symbol lookup returns is not initialised; and
\* nothing when it is, whatever the symbols it shadows are.
C20_CheckUse ==
    [][\A name \in Names :
          Use(name) =>
              st' = IF symtab_lookup(st, name) = NoSymbol THEN Errors(st)
                    ELSE IF symtab_lookup(st, name).is_initialised = 0 THEN Warnings(st)
                    ELSE st]_vars

\* x is used where the initialised char x shadows the uninitialised float x
C20_Witness ==
    /\ sym_call = [fn |-> "check_use", printed |-> "none", scope |-> 1]
    /\ st.current_scope = 1
    /\ st.errors = 0
    /\ AllSymbols(st) = {[name |-> <<"x">>, type |-> "TYPE_FLOAT", scope_level |-> 0,
                          is_initialised |-> 0, line_declared |-> 4],
                         [name |-> <<"x">>, type |-> "TYPE_CHAR", scope_level |-> 1,
                          is_initialised |-> 1, line_declared |-> 7]}

\* C21 counters: no call makes the error or the warning counter smaller.
Accumulates == st'.errors >= st.errors /\ st'.warnings >= st.warnings

\* the symbols, their fields and the scopes of the table are as they were
SameTable ==
    /\ st'.buckets = st.buckets
    /\ st'.total_symbols = st.total_symbols
    /\ st'.current_scope = st.current_scope
    /\ st'.scope_stack = st.scope_stack
    /\ st'.scope_top = st.scope_top

\* the call that is made is one that reports without inserting
ReportsOnly(c) ==
    \/ c.fn \in {"check_use", "check_assignment_compat"}
    \/ c.fn = "symtab_insert"
         /\ symtab_insert(st, c.name, c.type, c.initialised, c.line).ret = NoSymbol

\* C21: over any sequence of calls the error and warning counters never
\* decrease, and a rejected insert, a check_use and a check_assignment_compat
\* leave the symbols, their fields, current_scope and the scope stack as they
\* were.
C21_AccumulateAndContinue ==
    [][/\ Accumulates
       /\ (ScriptCall /\ ReportsOnly(script[script_pc + 1])) => SameTable]_vars

\* count is declared twice at level 0: the second insert is rejected, count stays
C21_Witness ==
    /\ sym_call = [fn |-> "symtab_insert", printed |-> "ERROR", scope |-> 0]
    /\ script_pc = 2
    /\ st.errors = 1
    /\ st.total_symbols = 1
    /\ symtab_lookup(st, <<"c", "o", "u", "n", "t">>).type = "TYPE_INT"

\* the diagnostics of the listing demo_full_scenario prints, call by call
Annotated ==
    <<"none", "none", "none", "none", "none", "WARNING", "none", "WARNING", "ERROR",
      "none", "WARNING", "WARNING", "none", "ERROR">>

\* C25: demo_full_scenario prints the diagnostics of its listing: nothing for
\* line 4, a warning for lines 5, 6, 9 and 10, an error for lines 7 and 12,
\* and ends with 2 errors and 4 warnings.
C25_FullScenario ==
    (script = FullScenario /\ script_pc > 0) =>
        /\ sym_call.printed = Annotated[script_pc]
        /\ script_pc = Len(FullScenario) => st.errors = 2 /\ st.warnings = 4

\* C26: in every state reached by insert, push_scope and pop_scope, nested
\* past MAX_SCOPES or not, every symbol of the table has a scope_level of at
\* most current_scope.
C26_ScopeLevelInvariant ==
    \A sym \in AllSymbols(st) : sym.scope_level <= st.current_scope

\* C27: right after a symtab_insert that succeeded, symtab_lookup of the name
\* returns the symbol just inserted, under that name, and a second
\* symtab_insert of the name at the same level is rejected; this for names of
\* any length.
C27_InsertLookupAgree ==
    [][\A d \in Declarations :
          (Insert(d[1], d[2], d[3], d[4])
              /\ symtab_insert(st, d[1], d[2], d[3], d[4]).ret # NoSymbol) =>
              /\ symtab_lookup(st', d[1]) =
                     [name |-> d[1], type |-> d[2], scope_level |-> st.current_scope,
                      is_initialised |-> d[3], line_declared |-> d[4]]
              /\ symtab_insert(st', d[1], d[2], d[3], d[4]).ret = NoSymbol]_vars

\* the number of symbols of level scope in the chains 0 .. i of table t
RECURSIVE CountLevel(_, _, _)
CountLevel(t, scope, i) ==
    IF i < 0 THEN 0
    ELSE Len(t.buckets[i]) - Len(Keep(t.buckets[i], scope)) + CountLevel(t, scope, i - 1)

\* C28: symtab_pop_scope at level 0 with an empty scope stack leaves
\* current_scope and the scope stack as they are and removes every symbol of
\* level 0; total_symbols drops by their number.
C28_UnmatchedPop ==
    [][(PopScope /\ st.scope_top = 0 /\ st.current_scope = 0) =>
          /\ st'.current_scope = 0
          /\ st'.scope_top = 0
          /\ st'.scope_stack = st.scope_stack
          /\ \A sym \in AllSymbols(st') : sym.scope_level # 0
          /\ st'.total_symbols = st.total_symbols - CountLevel(st, 0, SYMTAB_SIZE - 1)
          /\ st'.warnings = st.warnings
          /\ st'.errors = st.errors]_vars

\* the uninitialised float x of level 0 was used, then popped without a push
C28_Witness ==
    /\ sym_call = [fn |-> "symtab_pop_scope", printed |-> "none", scope |-> 0]
    /\ st.current_scope = 0
    /\ st.scope_top = 0
    /\ st.warnings = 1
    /\ st.errors = 0
    /\ st.total_symbols = 0
    /\ AllSymbols(st) = {}

-----------------------------------------------------------------------------
(* Chapter 19: the shape of the AST                                        *)

\* parse_expr has returned to demo_parse_and_eval
Returned == ppc \in {"parsed", "evaluated", "freed"}

\* node k of heap h has the children its type asks for, allocated before it
NodeWellFormed(h, k) ==
    CASE h[k].type = "NODE_BINOP" ->
            /\ h[k].op \in {"+", "-", "*", "/"}
            /\ h[k].left \in 1..(k - 1)
            /\ h[k].right \in 1..(k - 1)
      [] h[k].type = "NODE_UNARY_NEG" ->
            /\ h[k].left \in 1..(k - 1)
            /\ h[k].right = NULL
      [] h[k].type = "NODE_INT" ->
            /\ h[k].left = NULL
            /\ h[k].right = NULL
      [] OTHER -> FALSE

\* C22: on every input, with or without parse errors, every node the parser
\* builds is well formed (a BinaryOp has an operator of + - * / and two
\* non-null children, a UnaryNegate a non-null operand and no right child, an
\* IntLiteral no children), and the root parse_expr returns is a node.
C22_WellFormedAst ==
    /\ \A k \in 1..Len(heap) : NodeWellFormed(heap, k)
    /\ Returned => ast \in 1..Len(heap)

\* "-)" : a negation over the zero literal of the error recovery
C22_Witness ==
    /\ ppc = "parsed"
    /\ parse_errors = 1
    /\ expression = <<"-", ")">>
    /\ heap[ast].type = "NODE_UNARY_NEG"
    /\ heap[heap[ast].left] = make_int_node(0)

\* the links of heap h that point to node k
ParentLinks(h, k) ==
    {<<j, "left">> : j \in {j \in 1..Len(h) : h[j].left = k}}
        \cup {<<j, "right">> : j \in {j \in 1..Len(h) : h[j].right = k}}

\* the nodes at or below node n of heap h
RECURSIVE Below(_, _)
Below(h, n) ==
    IF n = NULL THEN {} ELSE {n} \cup Below(h, h[n].left) \cup Below(h, h[n].right)

\* C23: once parse_expr has returned, with or without parse errors, every
\* node allocated is at or below the root, the root has no parent and every
\* other node exactly one parent link, from a node allocated after it; and
\* free_ast(root) passes every allocated node to free() exactly once.
C23_Ownership ==
    /\ Returned =>
          /\ Below(heap, ast) = 1..Len(heap)
          /\ ParentLinks(heap, ast) = {}
          /\ \A k \in 1..Len(heap) \ {ast} :
                /\ Cardinality(ParentLinks(heap, k)) = 1
                /\ \A link \in ParentLinks(heap, k) : link[1] > k
    /\ ppc = "freed" =>
          /\ Len(freed) = Len(heap)
          /\ {freed[i] : i \in 1..Len(freed)} = 1..Len(heap)

\* "(3 + 4" : the three nodes built before the missing parenthesis are freed
C23_Witness ==
    /\ ppc = "freed"
    /\ expression = Str_p3p4
    /\ parse_errors = 1
    /\ freed = <<1, 2, 3>>

\* C24: when parse_expr returns to demo_parse_and_eval without a parse error
\* having been reported, the input is a sentence of the grammar and the
\* lookahead is end-of-input.
C24_ErrorFreeMeansValid ==
    (Returned /\ parse_errors = 0) =>
        /\ WellFormed(Tokens(expression))
        /\ p.current.type = "T_EOF"

-----------------------------------------------------------------------------
(* Chapter 18: progress of the tokenizer                                   *)

\* the call of lexer_next_token a step of tokenize_all makes moves the cursor
\* by at least one character unless it returns end-of-input, and at the end
\* of the input it returns end-of-input and leaves the lexer as it is
CallProgress ==
    Stepping =>
        /\ Stored.type # "TOK_EOF" => lex'.pos >= lex.pos + 1
        /\ lex.pos = Len(source) => Stored.type = "TOK_EOF" /\ lex' = lex

\* the number of tokens of the input, end-of-input not counted
InputTokens == Len(RestTokens(lexer_init(source))) - 1

\* what tokenize_all returns
CountReturned ==
    tpc = "returned" =>
        /\ count \in 1..max_tokens
        /\ Len(tokens) = count
        /\ InputTokens < max_tokens => tokens[count].type = "TOK_EOF"

\* C29: every call of lexer_next_token that returns a token other than
\* end-of-input advances the cursor by at least one character and a call at
\* the end of the input returns end-of-input with the cursor unchanged;
\* tokenize_all terminates, returns a count between 1 and max_tokens, and the
\* last token it stores is end-of-input when the input has fewer than
\* max_tokens tokens.
C29_LexerProgress ==
    /\ [][CallProgress]_vars
    /\ []CountReturned
    /\ <>(tpc = "returned")

\* "int x = 42;" : five tokens and end-of-input, the cursor at the end
C29_Witness ==
    /\ tpc = "returned"
    /\ source = Src1
    /\ max_tokens = MAX_TOKENS
    /\ count = 6
    /\ tokens[6].type = "TOK_EOF"
    /\ lex.pos = Len(Src1)

-----------------------------------------------------------------------------
(* Chapter 14: the bounded buffer                                          *)

\* the thread holds buf_mutex wherever it reads or writes buf_count or buffer
HoldsMutex ==
    /\ prod.pc \in {"while", "put", "signal", "unlock"} => buf_mutex = "producer"
    /\ cons.pc \in {"while", "get", "signal", "unlock"} => buf_mutex = "consumer"

\* the producer stores into a buffer that is not full, the consumer loads
\* from a buffer that is not empty, each holding buf_mutex
GuardedAccess ==
    /\ ProducerPut => buf_count < BUFFER_SIZE /\ buf_mutex = "producer"
    /\ ConsumerGet => buf_count > 0 /\ buf_mutex = "consumer"

\* both threads have returned after their 8 items and the buffer is empty
BothFinished ==
    /\ prod = [pc |-> "done", i |-> Items]
    /\ cons.pc = "done"
    /\ cons.i = Items
    /\ buf_count = 0

====
